---- MODULE Spec2Model ----
(***************************************************************************)
(* A model of the safety fabric of the http_client library:                *)
(*   - TokenBucket            (http_client/safety/rate_limiter.py)         *)
(*   - the retry loop         (http_client/backends/thread_backend.py,     *)
(*                             async_backend.py, handler.py)               *)
(*   - ProxyPool              (http_client/safety/proxy_pool.py)           *)
(* Each subsystem has its own specification (SpecBucket, SpecRetry,        *)
(* SpecPool); the variables of the other subsystems stay at their initial  *)
(* values.  Time is a discrete clock `now`; token counts are fixed-point   *)
(* numbers with TokenUnit units per token.                                 *)
(***************************************************************************)
EXTENDS Integers, Sequences, FiniteSets, TLC

VARIABLES
    now,            \* time.monotonic(), in ticks
    tokens,         \* TokenBucket._tokens, in units (TokenUnit units = 1 token)
    last_update,    \* TokenBucket._last_update
    bcall,          \* per caller of the bucket: where it is in acquire_*
    calls,          \* acquires started so far (bounds the run)
    grants,         \* times at which an acquire returned True, in order
    denied,         \* last non-blocking acquire that returned False: its caller and the tokens before and after
    retries,        \* config.retries (N)
    attempt,        \* the loop variable of _execute_with_retry
    rpc,            \* where the retry loop is: trying, backoff, returned, raised
    history,        \* what the transport did on each invocation, in order
    last_error,     \* the local last_error (0: None, else the failing invocation)
    outcome,        \* what the caller of _execute_with_retry gets
    sleeps,         \* the backoff sleeps taken, in order
    proxies,        \* ProxyPool._proxies: the list of Proxy entries
    round_robin_index,  \* ProxyPool._round_robin_index
    strategy,       \* ProxyPool._strategy
    max_failures,   \* ProxyPool._max_failures (K)
    cooldown,       \* ProxyPool._cooldown (T), in ticks
    picked,         \* what the last get_proxy returned, and the entries its recovery check re-enabled
    returned,       \* the urls a caller wrote down from its get_proxy calls, in order
    held,           \* the Proxy object a caller kept from a get_proxy call
    health,         \* ProxyManager._health: a ProxyHealth per proxy of the manager's pool
    current_index,  \* ProxyManager._current_index
    current_proxy,  \* ProxyManager._current_proxy (its url, "none" for None)
    switched,       \* what the last switch_proxy returned or raised
    req,            \* the request in flight: where it is, its proxy, how it ended
    reports,        \* the health reports made on behalf of that request, in order
    served,         \* the requests finished so far: proxy and outcome, in order
    jar,            \* CookieStore._cookies: per domain key, in dict order, the cookies in dict order
    sess,           \* the request of a session with cookie persistence: where it is, its url, the cookies it sent
    processed,      \* the url and cookies of the last response such a session has fully processed
    lookup,         \* the last read or clear of the jar and what it returned, until the next write or tick
    batch,          \* a gather call: its tasks, the order they completed in, its result lists
    twin,           \* the transport's behaviour and the outcome of the blocking gather run on it
    run,            \* one request on its way through execute_sync / execute_async
    lk,             \* the two locks of a TokenBucket and where each caller of acquire is
    dl,             \* a DomainRateLimiter for one domain: its rate, its bucket, its callers
    timing,         \* sequential blocking requests of one client to one domain, on a wall clock
    scope,          \* an HTTPHandler and one `with handler.session()` block around its cookie jar
    prep,           \* one stealth request's headers: the inputs of _prepare_request and what it built
    gen,            \* a HeaderGenerator: its _last_referer and the last generate call
    fair,           \* per proxy, the proxies enabled ever since it was last returned and not returned since
    pair            \* a DomainRateLimiter's global and domain bucket and one non-blocking acquire

bucketVars == <<tokens, last_update, bcall, calls, grants, denied>>
retryVars == <<retries, attempt, rpc, history, last_error, outcome, sleeps>>
poolVars == <<proxies, round_robin_index, strategy, max_failures, cooldown, picked>>
callerVars == <<returned, held>>
managerVars == <<health, current_index, current_proxy, switched>>
requestVars == <<req, reports, served>>
jarVars == <<jar, lookup>>
sessionVars == <<sess, processed>>
gatherVars == <<batch, twin>>
pipelineVars == <<run>>
limiterVars == <<lk, dl>>
restVars == <<timing, scope, prep, gen, fair, pair>>
vars == <<now, bucketVars, retryVars, poolVars, callerVars, managerVars, requestVars, jarVars,
          sessionVars, gatherVars, pipelineVars, limiterVars, restVars>>

\* what a step of one subsystem leaves alone
BucketFrame == UNCHANGED <<retryVars, poolVars, callerVars, managerVars, requestVars, jarVars,
    sessionVars, gatherVars, pipelineVars, limiterVars, restVars>>
RetryFrame == UNCHANGED <<now, bucketVars, poolVars, callerVars, managerVars, requestVars, jarVars,
    sessionVars, gatherVars, pipelineVars, limiterVars, restVars>>
PoolFrame == UNCHANGED <<bucketVars, retryVars, callerVars, managerVars, requestVars, jarVars,
    sessionVars, gatherVars, pipelineVars, limiterVars, restVars>>
CallerFrame == UNCHANGED <<bucketVars, retryVars, managerVars, requestVars, jarVars,
    sessionVars, gatherVars, pipelineVars, limiterVars, restVars>>
ManagerFrame == UNCHANGED <<bucketVars, retryVars, poolVars, callerVars, jarVars,
    sessionVars, gatherVars, pipelineVars, limiterVars, restVars>>
SessionFrame ==
    UNCHANGED <<bucketVars, retryVars, poolVars, callerVars, managerVars, requestVars, gatherVars,
                pipelineVars, limiterVars, restVars>>
GatherFrame ==
    UNCHANGED <<now, bucketVars, retryVars, poolVars, callerVars, managerVars, requestVars, jarVars,
                sessionVars, pipelineVars, limiterVars, restVars, twin>>
VariantFrame ==
    UNCHANGED <<now, bucketVars, retryVars, poolVars, callerVars, managerVars, requestVars, jarVars,
                sessionVars, pipelineVars, limiterVars, restVars>>
PipelineFrame ==
    UNCHANGED <<now, bucketVars, retryVars, poolVars, callerVars, managerVars, requestVars, jarVars,
                sessionVars, gatherVars, limiterVars, restVars>>
LockFrame ==
    UNCHANGED <<bcall, calls, grants, denied, retryVars, poolVars, callerVars, managerVars,
                requestVars, jarVars, sessionVars, gatherVars, pipelineVars, dl, restVars>>
LimiterFrame ==
    UNCHANGED <<now, bucketVars, retryVars, poolVars, callerVars, managerVars, requestVars, jarVars,
                sessionVars, gatherVars, pipelineVars, lk, restVars>>
TimingFrame ==
    UNCHANGED <<now, bucketVars, retryVars, poolVars, callerVars, managerVars, requestVars, jarVars,
                sessionVars, gatherVars, pipelineVars, limiterVars, scope, prep, gen, fair, pair>>
ScopeFrame ==
    UNCHANGED <<now, bucketVars, retryVars, poolVars, callerVars, managerVars, requestVars, lookup,
                sessionVars, gatherVars, pipelineVars, limiterVars, timing, prep, gen, fair, pair>>
PrepFrame ==
    UNCHANGED <<now, bucketVars, retryVars, poolVars, callerVars, managerVars, requestVars, jarVars,
                sessionVars, gatherVars, pipelineVars, limiterVars, timing, scope, gen, fair, pair>>
GenFrame ==
    UNCHANGED <<now, bucketVars, retryVars, poolVars, callerVars, managerVars, requestVars, jarVars,
                sessionVars, gatherVars, pipelineVars, limiterVars, timing, scope, prep, fair, pair>>
FairFrame ==
    UNCHANGED <<bucketVars, retryVars, callerVars, managerVars, requestVars, jarVars,
                sessionVars, gatherVars, pipelineVars, limiterVars, timing, scope, prep, gen, pair>>
PairFrame ==
    UNCHANGED <<now, bucketVars, retryVars, poolVars, callerVars, managerVars, requestVars, jarVars,
                sessionVars, gatherVars, pipelineVars, limiterVars, timing, scope, prep, gen, fair>>
JarFrame == UNCHANGED <<bucketVars, retryVars, poolVars, callerVars, managerVars, requestVars,
    sessionVars, gatherVars, pipelineVars, limiterVars, restVars>>

(***************************************************************************)
(* Bounds and inputs of the model                                          *)
(***************************************************************************)
MaxTime == 3        \* the clock stops here
MaxCalls == 4       \* acquires started in one run
TokenUnit == 2      \* fixed-point: units per token
Rate == 1           \* TokenBucket._rate, units per tick
CapacityTokens == 1 \* TokenBucket._capacity, in tokens
MaxRetries == 3     \* config.retries ranges over 0..MaxRetries
BackoffBase == 2    \* config.retry_backoff_base

MaxFailures == 2    \* ProxyPool._max_failures (K)
Cooldown == 2       \* ProxyPool._cooldown (T), in ticks
MaxConsecutive == 3 \* failure reports counted per entry before the model stops reporting
MaxPicks == 6       \* get_proxy calls a caller writes down
MaxRequests == 3    \* requests made one after the other through execute_sync

RetryCodes == {429, 503}            \* config.retry_codes (a subset of the default)
Statuses == {200, 404, 429, 503}    \* status codes the transport may answer

Threads == {"t1", "t2"}     \* callers of acquire_sync
Tasks == {"a1"}             \* callers of acquire_async (one event loop)
Callers == Threads \cup Tasks

Capacity == CapacityTokens * TokenUnit

Min(a, b) == IF a <= b THEN a ELSE b

\* smallest number of ticks t with t * d >= n (for n > 0, d > 0)
CeilDiv(n, d) == (n + d - 1) \div d

(***************************************************************************)
(* The clock                                                               *)
(***************************************************************************)
TickClock == /\ now < MaxTime
             /\ now' = now + 1


(***************************************************************************)
(* ProxyPool.  An entry keeps the fields the pool's decisions read:        *)
(* url, enabled, consecutive_failures, last_used, disabled_until.  (The    *)
(* counters total_requests and total_failures and the stamp last_failure   *)
(* are written but read only by success_rate; they are left out.)  Every   *)
(* operation runs under ProxyPool._lock, so each is one step.              *)
(***************************************************************************)
ProxyURLs == {"p1", "p2"}
InitialProxies == <<"p1", "p2">>
Strategies == {"round_robin", "random", "least_used"}

\* Proxy(url=url): the dataclass defaults
NewProxy(u) ==
    [url |-> u, enabled |-> TRUE, consecutive_failures |-> 0,
     last_used |-> 0, disabled_until |-> 0]

\* the result of a get_proxy: the url of the copy it returned ("none" for
\* None) and, for the record, the urls its recovery check re-enabled
Picked(u, rec) == [url |-> u, recovered |-> rec]

\* ProxyPool.__init__(proxies=ps, strategy=st, max_failures=k, cooldown=t)
PoolStartFull(ps, st, k, t) ==
    /\ proxies = [i \in 1..Len(ps) |-> NewProxy(ps[i])]
    /\ round_robin_index = 0
    /\ strategy = st
    /\ max_failures = k
    /\ cooldown = t
    /\ picked = Picked("none", {})

\* ProxyPool.__init__ with the list of urls ps, strategy st, and the model's K and T
PoolStartWith(ps, st) == PoolStartFull(ps, st, MaxFailures, Cooldown)

\* ProxyPool.__init__ with the list InitialProxies and strategy st
PoolStart(st) == PoolStartWith(InitialProxies, st)

\* index of the first entry with url u, 0 when there is none
\* (`for proxy in self._proxies: if proxy.url == url: ... break`)
FirstIdx(pl, u) ==
    IF \E i \in 1..Len(pl) : pl[i].url = u
    THEN CHOOSE i \in 1..Len(pl) : pl[i].url = u /\ \A j \in 1..(i - 1) : pl[j].url # u
    ELSE 0

HasProxy(pl, u) == FirstIdx(pl, u) # 0
Entry(pl, u) == pl[FirstIdx(pl, u)]

\* a recovery check that forgets the cooldown: every disabled entry comes back
RecoverIgnoringCooldown(p, t) == ~p.enabled

\* the test of _check_recovery: `not proxy.enabled and proxy.disabled_until <= now`
CooldownOver(p, t) == ~p.enabled /\ p.disabled_until <= t

\* a recovery that re-enables but keeps the failure count
RecoveredKeepingCount(p) == [p EXCEPT !.enabled = TRUE]

\* what _check_recovery does to an entry past its cooldown
Recovered(p) == [p EXCEPT !.enabled = TRUE, !.consecutive_failures = 0]

\* _check_recovery at time t
CheckRecovery(pl, t) ==
    [i \in 1..Len(pl) |-> IF CooldownOver(pl[i], t) THEN Recovered(pl[i]) ELSE pl[i]]

RecoveredURLs(pl, t) == {pl[i].url : i \in {j \in 1..Len(pl) : CooldownOver(pl[j], t)}}

\* _get_available_proxies, as the indices of the enabled entries in list order
AvailableIdx(pl) == SelectSeq([i \in 1..Len(pl) |-> i], LAMBDA i : pl[i].enabled)

\* `min(available, key=lambda p: p.last_used)`: the first entry with the least stamp
LeastUsedPos(pl, av) ==
    CHOOSE k \in 1..Len(av) :
        /\ \A j \in 1..Len(av) : pl[av[k]].last_used <= pl[av[j]].last_used
        /\ \A j \in 1..(k - 1) : pl[av[j]].last_used > pl[av[k]].last_used

\* the positions in `available` the strategy may pick
PickPositions(pl, av) ==
    IF strategy = "round_robin" THEN {(round_robin_index % Len(av)) + 1}
    ELSE IF strategy = "random" THEN 1..Len(av)
    ELSE {LeastUsedPos(pl, av)}

\* a round robin that never advances
NextIndexStuck(idx, n) == idx

\* `self._round_robin_index = (self._round_robin_index + 1) % len(available)`
NextIndex(idx, n) == (idx + 1) % n

\* the body of get_proxy: what it does to the pool, and what it returns
SelectProxy ==
    LET rec == CheckRecovery(proxies, now)
        av == AvailableIdx(rec)
        back == RecoveredURLs(proxies, now)
    IN /\ IF av = <<>>
          THEN /\ proxies' = rec
               /\ picked' = Picked("none", back)
               /\ UNCHANGED round_robin_index
          ELSE \E k \in PickPositions(rec, av) :
                 /\ proxies' = [rec EXCEPT ![av[k]].last_used = now]
                 /\ round_robin_index' =
                        IF strategy = "round_robin"
                        THEN NextIndex(round_robin_index, Len(av))
                        ELSE round_robin_index
                 /\ picked' = Picked(rec[av[k]].url, back)
       /\ UNCHANGED <<now, strategy, max_failures, cooldown>>

\* ProxyPool.get_proxy, by a caller that uses the url and drops the object
GetProxy == SelectProxy /\ PoolFrame

\* ProxyPool.add_proxy
AddProxy(u) ==
    /\ proxies' = IF HasProxy(proxies, u) THEN proxies ELSE Append(proxies, NewProxy(u))
    /\ UNCHANGED <<now, round_robin_index, strategy, max_failures, cooldown, picked>>
    /\ PoolFrame

\* ProxyPool.remove_proxy
RemoveProxy(u) ==
    LET i == FirstIdx(proxies, u) IN
    /\ proxies' = IF i = 0 THEN proxies
                  ELSE SubSeq(proxies, 1, i - 1) \o SubSeq(proxies, i + 1, Len(proxies))
    /\ UNCHANGED <<now, round_robin_index, strategy, max_failures, cooldown, picked>>
    /\ PoolFrame

\* a report_success that also re-enables the entry
SucceededAndEnabled(p) == [p EXCEPT !.consecutive_failures = 0, !.enabled = TRUE]

\* what report_success does to the entry it finds
Succeeded(p) == [p EXCEPT !.consecutive_failures = 0]

\* ProxyPool.report_success
ReportSuccess(u) ==
    LET i == FirstIdx(proxies, u) IN
    /\ proxies' = IF i = 0 THEN proxies ELSE [proxies EXCEPT ![i] = Succeeded(proxies[i])]
    /\ UNCHANGED <<now, round_robin_index, strategy, max_failures, cooldown, picked>>
    /\ PoolFrame

\* a failure test that needs one failure more than max_failures
TooManyFailuresLate(n) == n > max_failures

\* `proxy.consecutive_failures >= self._max_failures`
TooManyFailures(n) == n >= max_failures

\* what report_failure does to the entry it finds, at time t
Failed(p, t) ==
    LET n == p.consecutive_failures + 1 IN
    IF TooManyFailures(n)
    THEN [p EXCEPT !.consecutive_failures = n, !.enabled = FALSE,
                   !.disabled_until = t + cooldown]
    ELSE [p EXCEPT !.consecutive_failures = n]

\* ProxyPool.report_failure
ReportFailure(u) ==
    LET i == FirstIdx(proxies, u) IN
    /\ i # 0 => proxies[i].consecutive_failures < MaxConsecutive
    /\ proxies' = IF i = 0 THEN proxies ELSE [proxies EXCEPT ![i] = Failed(proxies[i], now)]
    /\ UNCHANGED <<now, round_robin_index, strategy, max_failures, cooldown, picked>>
    /\ PoolFrame

\* ProxyPool.force_disable
ForceDisable(u) ==
    LET i == FirstIdx(proxies, u) IN
    /\ proxies' = IF i = 0 THEN proxies
                  ELSE [proxies EXCEPT ![i].enabled = FALSE,
                                       ![i].disabled_until = now + cooldown]
    /\ UNCHANGED <<now, round_robin_index, strategy, max_failures, cooldown, picked>>
    /\ PoolFrame

\* ProxyPool.force_enable
ForceEnable(u) ==
    LET i == FirstIdx(proxies, u) IN
    /\ proxies' = IF i = 0 THEN proxies
                  ELSE [proxies EXCEPT ![i].enabled = TRUE,
                                       ![i].consecutive_failures = 0,
                                       ![i].disabled_until = 0]
    /\ UNCHANGED <<now, round_robin_index, strategy, max_failures, cooldown, picked>>
    /\ PoolFrame

\* ProxyPool.reset_all (Proxy.reset_stats zeroes the counters and last_used)
ResetAll ==
    /\ proxies' = [i \in 1..Len(proxies) |->
                     [proxies[i] EXCEPT !.enabled = TRUE, !.consecutive_failures = 0,
                                        !.last_used = 0]]
    /\ round_robin_index' = 0
    /\ UNCHANGED <<now, strategy, max_failures, cooldown, picked>>
    /\ PoolFrame

\* the available_count property: runs the recovery check, returns a count
AvailableCount ==
    /\ proxies' = CheckRecovery(proxies, now)
    /\ UNCHANGED <<now, round_robin_index, strategy, max_failures, cooldown, picked>>
    /\ PoolFrame

\* ProxyPool.get_stats: runs the recovery check, returns the statistics
GetStats ==
    /\ proxies' = CheckRecovery(proxies, now)
    /\ UNCHANGED <<now, round_robin_index, strategy, max_failures, cooldown, picked>>
    /\ PoolFrame

PoolTick == TickClock /\ UNCHANGED poolVars /\ PoolFrame

PoolNext ==
    \/ GetProxy
    \/ \E u \in ProxyURLs : AddProxy(u)
    \/ \E u \in ProxyURLs : RemoveProxy(u)
    \/ \E u \in ProxyURLs : ReportSuccess(u)
    \/ \E u \in ProxyURLs : ReportFailure(u)
    \/ \E u \in ProxyURLs : ForceDisable(u)
    \/ \E u \in ProxyURLs : ForceEnable(u)
    \/ ResetAll
    \/ AvailableCount
    \/ GetStats
    \/ PoolTick

(***************************************************************************)
(* Callers of get_proxy.  One writes down the url of every proxy it gets   *)
(* (`urls = [pool.get_proxy().url for _ in range(6)]`); one keeps the      *)
(* returned object and writes to its attributes.  An object is modelled by *)
(* its attribute values and by whether it is the pool's own entry (alias)  *)
(* or a separate object.                                                   *)
(***************************************************************************)
RotationLists == {<<"p1">>, <<"p2", "p1">>, <<"p1", "p2", "p3">>}

NoHeld == [alias |-> FALSE, obj |-> NewProxy("none")]

CallerStart ==
    /\ returned = <<>>
    /\ held = NoHeld

\* a get_proxy that hands out the pool's own entry
AliasOf(p) == [alias |-> TRUE, obj |-> p]

\* `return copy.copy(proxy)`: a new object with the attribute values of now
CopyOf(p) == [alias |-> FALSE, obj |-> p]

\* what the caller reads from the object it holds
HeldView == IF held.alias THEN Entry(proxies, held.obj.url) ELSE held.obj

\* get_proxy by a caller that appends the url it got to its list
GetProxyLogged ==
    /\ Len(returned) < MaxPicks
    /\ SelectProxy
    /\ returned' = Append(returned, picked'.url)
    /\ UNCHANGED held
    /\ CallerFrame

\* get_proxy by a caller that keeps the returned object
GetProxyKeep ==
    /\ SelectProxy
    /\ held' = IF picked'.url = "none" THEN NoHeld
                ELSE CopyOf(Entry(proxies', picked'.url))
    /\ UNCHANGED returned
    /\ CallerFrame

\* the attribute writes a caller may make on the object it holds
Mutations == {"enabled", "consecutive_failures"}

Mutated(p, f) ==
    IF f = "enabled" THEN [p EXCEPT !.enabled = ~p.enabled]
    ELSE [p EXCEPT !.consecutive_failures = (p.consecutive_failures + 1) % (MaxConsecutive + 1)]

\* `proxy.<f> = ...` on the held object (as test_report_success does)
MutateHeld(f) ==
    /\ held.obj.url # "none"
    /\ IF held.alias
       THEN /\ HasProxy(proxies, held.obj.url)
            /\ proxies' = [proxies EXCEPT ![FirstIdx(proxies, held.obj.url)] = Mutated(@, f)]
            /\ UNCHANGED held
       ELSE /\ held' = [held EXCEPT !.obj = Mutated(@, f)]
            /\ UNCHANGED proxies
    /\ UNCHANGED <<now, round_robin_index, strategy, max_failures, cooldown, picked, returned>>
    /\ CallerFrame

RotationNext ==
    \/ GetProxyLogged
    \/ \E u \in ProxyURLs : ReportSuccess(u)
    \/ AvailableCount
    \/ PoolTick

SnapshotNext ==
    \/ GetProxyKeep
    \/ \E f \in Mutations : MutateHeld(f)
    \/ \E u \in ProxyURLs : ReportSuccess(u)
    \/ \E u \in ProxyURLs : ReportFailure(u)
    \/ \E u \in ProxyURLs : ForceDisable(u)
    \/ PoolTick

(***************************************************************************)
(* HTTPClient.request over a ProxyManager.  The manager's pool is the list *)
(* ManagerPool (as left by set_proxy with count = 3); a ProxyHealth keeps   *)
(* the fields the decisions read: consecutive_failures, is_healthy and     *)
(* cooldown_until (0 stands for None: both are falsy in check_cooldown).   *)
(* A request is two steps: the preparation, which reads the current proxy, *)
(* and the end of the backend call with the health report that follows it. *)
(***************************************************************************)
ManagerPool == <<"p1", "p2", "p3">>
ManagerURLs == {ManagerPool[i] : i \in 1..Len(ManagerPool)}

\* ProxyHealth(proxy_id=...): the dataclass defaults
NewHealth == [consecutive_failures |-> 0, is_healthy |-> TRUE, cooldown_until |-> 0]

NoRequest == [pc |-> "idle", proxy |-> "none", outcome |-> "none"]

\* how a backend call may end: a response, a TransportError, or another
\* exception (ImportError from _get_curl_backend, TypeError from a body that
\* cannot be encoded, httpx.InvalidURL, ...)
Outcomes == {"response", "TransportError", "OtherError"}

\* ProxyManager.__init__ followed by set_proxy(provider, count=3)
ManagerStart ==
    /\ health = [u \in ManagerURLs |-> NewHealth]
    /\ current_index = 0
    /\ current_proxy = ManagerPool[1]
    /\ switched = "none"

RequestStart ==
    /\ req = NoRequest
    /\ reports = <<>>
    /\ served = <<>>

\* ProxyHealth.check_cooldown at time t
CheckCooldown(h, t) ==
    IF h.cooldown_until # 0 /\ t > h.cooldown_until
    THEN [h EXCEPT !.cooldown_until = 0, !.is_healthy = TRUE, !.consecutive_failures = 0]
    ELSE h

\* ProxyHealth.record_success
RecordSuccess(h) ==
    [h EXCEPT !.consecutive_failures = 0, !.is_healthy = TRUE, !.cooldown_until = 0]

\* ProxyHealth.record_failure at time t
RecordFailure(h, t) ==
    LET n == h.consecutive_failures + 1 IN
    IF n >= MaxFailures
    THEN [h EXCEPT !.consecutive_failures = n, !.is_healthy = FALSE,
                   !.cooldown_until = t + Cooldown]
    ELSE [h EXCEPT !.consecutive_failures = n]

\* _get_healthy_proxies_unlocked: the health records after the cooldown checks
CooldownsChecked == [u \in ManagerURLs |-> CheckCooldown(health[u], now)]

\* HTTPClient.get_current_proxy: the manager's current proxy (has_proxy holds
\* whenever a current proxy is set)
GetCurrentProxy == current_proxy

\* `except Exception as e:` around the backend call: which outcomes reach
\* record_failure
ReportsFailure(o) == o # "response"

\* HTTPClient.request up to the backend call: final_proxy is read here
RequestBegin ==
    /\ req.pc = "idle"
    /\ req' = [pc |-> "sent", proxy |-> GetCurrentProxy, outcome |-> "none"]
    /\ reports' = <<>>
    /\ UNCHANGED <<now, managerVars, served>>
    /\ ManagerFrame

\* the backend call ends with outcome o; record_success or record_failure on
\* final_proxy (both find the proxy in the pool by its url)
RequestEnd(o) ==
    LET u == req.proxy IN
    /\ req.pc = "sent"
    /\ ReportsFailure(o) => health[u].consecutive_failures < MaxConsecutive
    /\ req' = [req EXCEPT !.pc = "idle", !.outcome = o]
    /\ IF o = "response"
       THEN /\ health' = [health EXCEPT ![u] = RecordSuccess(@)]
            /\ reports' = Append(reports, [kind |-> "success", url |-> u])
       ELSE IF ReportsFailure(o)
       THEN /\ health' = [health EXCEPT ![u] = RecordFailure(@, now)]
            /\ reports' = Append(reports, [kind |-> "failure", url |-> u])
       ELSE UNCHANGED <<health, reports>>
    /\ UNCHANGED <<now, current_index, current_proxy, switched, served>>
    /\ ManagerFrame

\* a rotation that does not look at the health records
NextIndexAnyHealth(h, start) == start

\* the first index at or after start (cyclically) whose proxy is healthy in h
NextHealthyIndex(h, start) ==
    LET n == Len(ManagerPool)
        off == CHOOSE i \in 0..(n - 1) :
                  /\ h[ManagerPool[((start + i) % n) + 1]].is_healthy
                  /\ \A j \in 0..(i - 1) : ~h[ManagerPool[((start + j) % n) + 1]].is_healthy
    IN (start + off) % n

\* ProxyManager.switch_proxy (NoHealthyProxiesError leaves the current proxy)
SwitchProxy ==
    LET h == CooldownsChecked
        idx == NextHealthyIndex(h, (current_index + 1) % Len(ManagerPool))
    IN /\ health' = h
       /\ IF \E u \in ManagerURLs : h[u].is_healthy
          THEN /\ current_index' = idx
               /\ current_proxy' = ManagerPool[idx + 1]
               /\ switched' = ManagerPool[idx + 1]
          ELSE /\ switched' = "NoHealthyProxiesError"
               /\ UNCHANGED <<current_index, current_proxy>>
       /\ UNCHANGED <<now, requestVars>>
       /\ ManagerFrame

\* ProxyManager.get_stats: runs the cooldown checks
ManagerGetStats ==
    /\ health' = CooldownsChecked
    /\ UNCHANGED <<now, current_index, current_proxy, switched, requestVars>>
    /\ ManagerFrame

ManagerTick == TickClock /\ UNCHANGED <<managerVars, requestVars>> /\ ManagerFrame

ManagerNext ==
    \/ RequestBegin
    \/ \E o \in Outcomes : RequestEnd(o)
    \/ SwitchProxy
    \/ ManagerGetStats
    \/ ManagerTick

(***************************************************************************)
(* TokenBucket                                                             *)
(***************************************************************************)
\* _refill: tokens after a refill at time t
Refilled(tok, last, t) == Min(Capacity, tok + (t - last) * Rate)

\* _calculate_wait_time: ticks to sleep until one token is there
CalculateWaitTime(tok) == IF tok >= TokenUnit THEN 0 ELSE CeilDiv(TokenUnit - tok, Rate)

\* the decrement after the sleep (second `with self._thread_lock:` block)
ConsumeAfterSleep(tok) == tok - TokenUnit

IdleCall == [pc |-> "idle", wake_at |-> 0]

BucketStart ==
    /\ tokens = Capacity
    /\ last_update = 0
    /\ bcall = [c \in Callers |-> IdleCall]
    /\ calls = 0
    /\ grants = <<>>
    /\ denied = [caller |-> "none", before |-> 0, after |-> 0]

\* the retry loop before its first attempt, for a configured retries = n
RetryStart(n) ==
    /\ retries = n
    /\ attempt = 0
    /\ rpc = "trying"
    /\ history = <<>>
    /\ last_error = 0
    /\ outcome = [kind |-> "none"]
    /\ sleeps = <<>>

\* The first critical section of acquire_sync / acquire_async: refill, then
\* take a token, or give up (non-blocking), or compute the wait and leave the
\* lock to sleep.  The section runs under _thread_lock (and, for a task, under
\* the asyncio lock as well), and holds no suspension point, so it is one step.
FirstSection(c, blocking) ==
    LET tok == Refilled(tokens, last_update, now) IN
    /\ bcall[c].pc = "idle"
    /\ calls < MaxCalls
    /\ calls' = calls + 1
    /\ last_update' = now
    /\ IF tok >= TokenUnit
       THEN /\ tokens' = tok - TokenUnit
            /\ grants' = Append(grants, now)
            /\ UNCHANGED <<bcall, denied>>
       ELSE IF ~blocking
       THEN /\ tokens' = tok
            /\ denied' = [caller |-> c, before |-> tok, after |-> tok]
            /\ UNCHANGED <<bcall, grants>>
       ELSE /\ tokens' = tok
            /\ bcall' = [bcall EXCEPT ![c] =
                            [pc |-> "sleeping", wake_at |-> now + CalculateWaitTime(tok)]]
            /\ UNCHANGED <<grants, denied>>
    /\ UNCHANGED now
    /\ BucketFrame

\* The second critical section, entered when the sleep is over (a sleep lasts
\* at least wait_time): refill and take one token, whatever the count is.
SecondSection(c) ==
    /\ bcall[c].pc = "sleeping"
    /\ now >= bcall[c].wake_at
    /\ tokens' = ConsumeAfterSleep(Refilled(tokens, last_update, now))
    /\ last_update' = now
    /\ grants' = Append(grants, now)
    /\ bcall' = [bcall EXCEPT ![c] = IdleCall]
    /\ UNCHANGED <<now, calls, denied>>
    /\ BucketFrame

AcquireSync(t, blocking) == FirstSection(t, blocking)
AcquireSyncWake(t) == SecondSection(t)
AcquireAsync(a, blocking) == FirstSection(a, blocking)
AcquireAsyncWake(a) == SecondSection(a)

\* the available_tokens property: a refill under the lock
AvailableTokens ==
    /\ tokens' = Refilled(tokens, last_update, now)
    /\ last_update' = now
    /\ last_update # now
    /\ UNCHANGED <<now, bcall, calls, grants, denied>>
    /\ BucketFrame

BucketTick == TickClock /\ UNCHANGED bucketVars /\ BucketFrame

BucketNext ==
    \/ \E t \in Threads, b \in BOOLEAN : AcquireSync(t, b)
    \/ \E t \in Threads : AcquireSyncWake(t)
    \/ \E a \in Tasks, b \in BOOLEAN : AcquireAsync(a, b)
    \/ \E a \in Tasks : AcquireAsyncWake(a)
    \/ AvailableTokens
    \/ BucketTick


(***************************************************************************)
(* _execute_with_retry (ThreadBackend, AsyncBackend and HTTPHandler hold    *)
(* the same loop; the sleeps are time.sleep or asyncio.sleep)               *)
(***************************************************************************)
RECURSIVE Pow(_, _)
Pow(b, e) == IF e = 0 THEN 1 ELSE b * Pow(b, e - 1)

\* a loop that retries once more than configured
MayRetryOffByOne(att, n) == att <= n

\* `attempt < self._config.retries`: is there another attempt to make
MayRetry(att, n) == att < n

\* a retry test that takes every 4xx/5xx status for retryable
IsRetryCodeAnyError(s) == s >= 400

\* `response.status_code in self._config.retry_codes`
IsRetryCode(s) == s \in RetryCodes

\* a backoff that grows with the number of the attempt to come
BackoffOfNext(att) == Pow(BackoffBase, att + 1)

\* `backoff = self._config.retry_backoff_base ** attempt`
Backoff(att) == Pow(BackoffBase, att)

\* `except TransportError as e:` with no attempt left: the bare `raise`
RaisedOnLastError(id) == [kind |-> "TransportError", id |-> id]

\* `return response` (reached for any status once no retry applies)
Returned(s, id) == [kind |-> "response", status |-> s, id |-> id]

\* the `raise MaxRetriesExceeded(...)` after the for loop
LoopExhausted == [kind |-> "MaxRetriesExceeded", attempts |-> retries + 1, last_error |-> last_error]

\* one transport invocation that raises TransportError
AttemptRaises ==
    LET id == Len(history) + 1 IN
    /\ rpc = "trying"
    /\ history' = Append(history, [kind |-> "error", status |-> 0, id |-> id])
    /\ last_error' = id
    /\ IF MayRetry(attempt, retries)
       THEN /\ rpc' = "backoff"
            /\ sleeps' = Append(sleeps, Backoff(attempt))
            /\ UNCHANGED outcome
       ELSE /\ rpc' = "raised"
            /\ outcome' = RaisedOnLastError(id)
            /\ UNCHANGED sleeps
    /\ UNCHANGED <<retries, attempt>>
    /\ RetryFrame

\* one transport invocation that returns a response with status s
AttemptResponds(s) ==
    LET id == Len(history) + 1 IN
    /\ rpc = "trying"
    /\ history' = Append(history, [kind |-> "response", status |-> s, id |-> id])
    /\ IF IsRetryCode(s) /\ MayRetry(attempt, retries)
       THEN /\ rpc' = "backoff"
            /\ sleeps' = Append(sleeps, Backoff(attempt))
            /\ UNCHANGED outcome
       ELSE /\ rpc' = "returned"
            /\ outcome' = Returned(s, id)
            /\ UNCHANGED sleeps
    /\ UNCHANGED <<retries, attempt, last_error>>
    /\ RetryFrame

\* the sleep is over: `continue`, the next value of range(retries + 1), or
\* the end of the loop
BackoffDone ==
    /\ rpc = "backoff"
    /\ attempt' = attempt + 1
    /\ IF attempt + 1 <= retries
       THEN rpc' = "trying" /\ UNCHANGED outcome
       ELSE rpc' = "raised" /\ outcome' = LoopExhausted
    /\ UNCHANGED <<retries, history, last_error, sleeps>>
    /\ RetryFrame

RetryNext ==
    \/ AttemptRaises
    \/ \E s \in Statuses : AttemptResponds(s)
    \/ BackoffDone


(***************************************************************************)
(* ThreadBackend.execute_sync over a ProxyPool: get_proxy, the retry loop  *)
(* (the steps of _execute_with_retry below, taken while the request runs), *)
(* then report_success or report_failure.  The transport here fails on     *)
(* every attempt made through a proxy of FailingProxies and answers 200    *)
(* through any other.                                                      *)
(***************************************************************************)
FailoverProxies == <<"p1", "p2">>
FailoverMaxFailures == 1
FailoverCooldown == 60
FailingProxies == {"p1"}

\* execute_sync up to the retry loop: `proxy = self._proxy_pool.get_proxy()`
ExecBegin ==
    /\ req.pc = "idle"
    /\ Len(served) < MaxRequests
    /\ SelectProxy
    /\ req' = [pc |-> "running", proxy |-> picked'.url, outcome |-> "none"]
    /\ reports' = <<>>
    /\ attempt' = 0
    /\ rpc' = "trying"
    /\ history' = <<>>
    /\ last_error' = 0
    /\ outcome' = [kind |-> "none"]
    /\ sleeps' = <<>>
    /\ UNCHANGED <<retries, served>>
    /\ UNCHANGED <<bucketVars, callerVars, managerVars, jarVars, sessionVars, gatherVars, pipelineVars, limiterVars, restVars>>

\* one transport invocation of the running request, through its proxy
ExecAttempt ==
    /\ req.pc = "running"
    /\ IF req.proxy \in FailingProxies THEN AttemptRaises ELSE AttemptResponds(200)

\* the backoff sleep of the running request is over
ExecBackoff ==
    /\ req.pc = "running"
    /\ BackoffDone

\* the end of execute_sync: report_success after a returned response,
\* report_failure in `except (TransportError, MaxRetriesExceeded)`
ExecEnd ==
    LET i == FirstIdx(proxies, req.proxy)
        ok == rpc = "returned"
    IN /\ req.pc = "running"
       /\ rpc \in {"returned", "raised"}
       /\ req' = [req EXCEPT !.pc = "idle", !.outcome = outcome.kind]
       /\ served' = Append(served, [proxy |-> req.proxy, outcome |-> outcome.kind])
       /\ IF req.proxy = "none"
          THEN UNCHANGED <<proxies, reports>>
          ELSE /\ proxies' = IF i = 0 THEN proxies
                             ELSE [proxies EXCEPT ![i] =
                                     IF ok THEN Succeeded(@) ELSE Failed(@, now)]
               /\ reports' = Append(reports,
                     [kind |-> IF ok THEN "success" ELSE "failure", url |-> req.proxy])
       /\ UNCHANGED <<now, round_robin_index, strategy, max_failures, cooldown, picked>>
       /\ UNCHANGED <<bucketVars, retryVars, callerVars, managerVars, jarVars, sessionVars, gatherVars, pipelineVars, limiterVars, restVars>>

\* one transport invocation of the running request when the transport may
\* fail or answer 200 through any proxy and without one
\* (`proxy=proxy_url or request.proxy`, the request carrying no proxy of its own)
ExecAttemptAny ==
    /\ req.pc = "running"
    /\ (AttemptRaises \/ AttemptResponds(200))

\* what get_stats returns: the counts of available and disabled entries
StatsOf(pl, t) ==
    LET av == AvailableIdx(CheckRecovery(pl, t)) IN
    [total |-> Len(pl), available |-> Len(av), disabled |-> Len(pl) - Len(av)]

FailoverNext ==
    \/ ExecBegin
    \/ ExecAttempt
    \/ ExecBackoff
    \/ ExecEnd
    \/ GetStats
    \/ PoolTick

\* successive requests through a pool whose every proxy may fail
DirectNext ==
    \/ ExecBegin
    \/ ExecAttemptAny
    \/ ExecBackoff
    \/ ExecEnd
    \/ PoolTick

(***************************************************************************)
(* CookieStore.  A string is a sequence of tokens (labels, ".", a port     *)
(* suffix, path characters), so that lower(), startswith(), endswith() and *)
(* slicing are what they are on characters.  A cookie keeps name, value,   *)
(* domain, path, expires (NoExpiry for None) and secure; http_only is      *)
(* never read.  The jar keeps the order of the two dicts, because a lookup *)
(* lets a later cookie overwrite an earlier one of the same name.          *)
(***************************************************************************)
NoExpiry == -1

Names == {"sid"}
Values == {"a", "b"}
CookieDomains == {<<"ex", ".", "com">>, <<".", "ex", ".", "com">>, <<"sub", ".", "ex", ".", "com">>}
CookiePaths == {<<"/">>, <<"/", "a">>}
Expiries == {NoExpiry, 1}
Ports == {":8443"}

\* the arguments of CookieStore.set
CookieInputs ==
    [name : Names, value : Values, domain : CookieDomains, path : CookiePaths,
     expires : Expiries, secure : BOOLEAN]

URL(s, n, p) == [scheme |-> s, netloc |-> n, path |-> p]
NoURL == URL("", <<>>, <<>>)

\* the urls looked up
URLs ==
    {URL("https", <<"ex", ".", "com">>, <<"/">>),
     URL("http", <<"ex", ".", "com">>, <<"/", "a", "b">>),
     URL("https", <<"EX", ".", "com">>, <<"/", "a", "b">>),
     URL("https", <<"sub", ".", "ex", ".", "com">>, <<"/">>),
     URL("http", <<"sub", ".", "ex", ".", "com">>, <<"/", "a", "b">>),
     URL("https", <<"ex", ".", "com", ":8443">>, <<"/">>)}

\* the urls whose responses carry cookies
ResponseURLs ==
    {URL("https", <<"EX", ".", "com">>, <<"/", "a", "b">>),
     URL("https", <<"sub", ".", "ex", ".", "com">>, <<"/">>)}

\* str.lower() on one token and on a string
Lower(t) == IF t = "EX" THEN "ex" ELSE t
LowerStr(s) == [i \in 1..Len(s) |-> Lower(s[i])]

StartsWith(s, p) == Len(p) <= Len(s) /\ SubSeq(s, 1, Len(p)) = p
EndsWith(s, p) == Len(p) <= Len(s) /\ SubSeq(s, Len(s) - Len(p) + 1, Len(s)) = p

\* urlparse(url).hostname: the netloc without its port
Host(u) ==
    IF u.netloc # <<>> /\ u.netloc[Len(u.netloc)] \in Ports
    THEN SubSeq(u.netloc, 1, Len(u.netloc) - 1)
    ELSE u.netloc

\* Cookie.is_expired at time t
IsExpired(c, t) == c.expires # NoExpiry /\ t > c.expires

\* Cookie.matches_domain
MatchesDomain(c, domain) ==
    LET d == LowerStr(domain)
        cd == LowerStr(c.domain)
    IN \/ d = cd
       \/ IF cd # <<>> /\ cd[1] = "."
          THEN EndsWith(d, cd) \/ d = Tail(cd)
          ELSE EndsWith(d, <<".">> \o cd)

\* Cookie.matches_path
MatchesPath(c, path) == c.path = <<"/">> \/ StartsWith(path, c.path)

\* CookieStore._normalize_domain
NormalizeDomain(domain) ==
    LET d == LowerStr(domain) IN
    IF d # <<>> /\ d[1] = "." THEN Tail(d) ELSE d

\* CookieStore._get_domain_from_url, and the `domain` of get_for_url
DomainFromUrl(u) == LowerStr(u.netloc)

\* position of key k in the jar j, 0 when it is not there
KeyIdx(j, k) ==
    IF \E i \in 1..Len(j) : j[i].key = k
    THEN CHOOSE i \in 1..Len(j) : j[i].key = k
    ELSE 0

\* position of the cookie named n in the list cs, 0 when it is not there
NameIdx(cs, n) ==
    IF \E i \in 1..Len(cs) : cs[i].name = n
    THEN CHOOSE i \in 1..Len(cs) : cs[i].name = n
    ELSE 0

\* `self._cookies[k][c.name] = c`, after `if k not in self._cookies: self._cookies[k] = {}`
Stored(j, k, c) ==
    LET i == KeyIdx(j, k) IN
    IF i = 0 THEN Append(j, [key |-> k, items |-> <<c>>])
    ELSE LET n == NameIdx(j[i].items, c.name) IN
         IF n = 0 THEN [j EXCEPT ![i].items = Append(@, c)]
         ELSE [j EXCEPT ![i].items[n] = c]

\* the list s without its element at position i
Without(s, i) == SubSeq(s, 1, i - 1) \o SubSeq(s, i + 1, Len(s))

\* all cookies of the jar, in the order the two nested loops meet them
RECURSIVE Flat(_)
Flat(j) == IF j = <<>> THEN <<>> ELSE Head(j).items \o Flat(Tail(j))

\* CookieStore._cleanup_expired at time t
CleanupExpired(j, t) ==
    LET kept == [i \in 1..Len(j) |->
                    [j[i] EXCEPT !.items = SelectSeq(@, LAMBDA c : ~IsExpired(c, t))]]
    IN SelectSeq(kept, LAMBDA r : r.items # <<>>)

\* the four tests of the loop in get_for_url
Selected(c, u, t) ==
    /\ ~IsExpired(c, t)
    /\ MatchesDomain(c, DomainFromUrl(u))
    /\ MatchesPath(c, u.path)
    /\ ~(c.secure /\ u.scheme # "https")

\* the dict get_for_url builds, as its set of (name, value) pairs: for each
\* name the value of the last selected cookie in loop order
Result(j, u, t) ==
    LET fl == Flat(j)
        sel == {i \in 1..Len(fl) : Selected(fl[i], u, t)}
    IN {<<fl[i].name, fl[i].value>> :
            i \in {k \in sel : \A m \in sel : fl[m].name = fl[k].name => m <= k}}

\* the dict of dicts get_all builds, as (key, name, value) triples
Snapshot(j) ==
    UNION {{<<j[i].key, j[i].items[n].name, j[i].items[n].value>> : n \in 1..Len(j[i].items)}
              : i \in 1..Len(j)}

NoLookup == [op |-> "none", url |-> NoURL, domain |-> <<>>, pairs |-> {}, all |-> {}, count |-> 0]

\* no request of a session under way, no response processed
NoSession == [pc |-> "idle", url |-> NoURL, sent |-> {}]
NoResponse == [url |-> NoURL, pairs |-> {}]

SessionStart ==
    /\ sess = NoSession
    /\ processed = NoResponse

JarStart ==
    /\ jar = <<>>
    /\ lookup = NoLookup
    /\ SessionStart

\* CookieStore.set
Set(c) ==
    /\ jar' = Stored(jar, NormalizeDomain(c.domain), c)
    /\ lookup' = NoLookup
    /\ UNCHANGED now
    /\ JarFrame

\* CookieStore.update_from_response with one response cookie (n, v)
UpdateFromResponse(u, n, v) ==
    LET c == [name |-> n, value |-> v, domain |-> DomainFromUrl(u), path |-> <<"/">>,
              expires |-> NoExpiry, secure |-> FALSE]
    IN /\ jar' = Stored(jar, DomainFromUrl(u), c)
       /\ lookup' = NoLookup
       /\ UNCHANGED now
       /\ JarFrame

\* CookieStore.delete
Delete(n, domain) ==
    LET i == KeyIdx(jar, NormalizeDomain(domain))
        m == IF i = 0 THEN 0 ELSE NameIdx(jar[i].items, n)
    IN /\ jar' = IF m = 0 THEN jar
                 ELSE IF Len(jar[i].items) = 1 THEN Without(jar, i)
                 ELSE [jar EXCEPT ![i].items = Without(@, m)]
       /\ lookup' = NoLookup
       /\ UNCHANGED now
       /\ JarFrame

\* a pop that empties the whole dict
PoppedAll(j, k) == <<>>

\* `self._cookies.pop(domain_key, None)`
Popped(j, k) == IF KeyIdx(j, k) = 0 THEN j ELSE Without(j, KeyIdx(j, k))

\* CookieStore.clear_domain
ClearDomain(domain) ==
    /\ jar' = Popped(jar, NormalizeDomain(domain))
    /\ lookup' = [NoLookup EXCEPT !.op = "clear_domain", !.domain = domain,
                                   !.count = Len(Flat(jar)) - Len(Flat(jar'))]
    /\ UNCHANGED now
    /\ JarFrame

\* CookieStore.clear_all
ClearAll ==
    /\ jar' = <<>>
    /\ lookup' = NoLookup
    /\ UNCHANGED now
    /\ JarFrame

\* CookieStore.get_for_url: the sweep, then the loop
GetForUrl(u) ==
    /\ jar' = CleanupExpired(jar, now)
    /\ lookup' = [NoLookup EXCEPT !.op = "get_for_url", !.url = u,
                                   !.pairs = Result(jar', u, now)]
    /\ UNCHANGED now
    /\ JarFrame

\* CookieStore.get_all: the sweep, then the snapshot
GetAll ==
    /\ jar' = CleanupExpired(jar, now)
    /\ lookup' = [NoLookup EXCEPT !.op = "get_all", !.all = Snapshot(jar')]
    /\ UNCHANGED now
    /\ JarFrame

\* CookieStore.__len__: `sum(len(cookies) for cookies in self._cookies.values())`
JarLen ==
    /\ lookup' = [NoLookup EXCEPT !.op = "len", !.count = Len(Flat(jar))]
    /\ UNCHANGED <<now, jar>>
    /\ JarFrame

\* CookieStore.__bool__: `any(self._cookies.values())`
Truthy(j) == \E i \in 1..Len(j) : j[i].items # <<>>

JarBool ==
    /\ lookup' = [NoLookup EXCEPT !.op = "bool", !.count = IF Truthy(jar) THEN 1 ELSE 0]
    /\ UNCHANGED <<now, jar>>
    /\ JarFrame

JarTick == TickClock /\ lookup' = NoLookup /\ UNCHANGED jar /\ JarFrame

JarNext ==
    \/ \E c \in CookieInputs : Set(c)
    \/ \E u \in ResponseURLs, n \in Names, v \in Values : UpdateFromResponse(u, n, v)
    \/ \E n \in Names, d \in CookieDomains : Delete(n, d)
    \/ \E d \in CookieDomains : ClearDomain(d)
    \/ ClearAll
    \/ \E u \in URLs : GetForUrl(u)
    \/ GetAll
    \/ JarLen
    \/ JarBool
    \/ JarTick

(***************************************************************************)
(* A session with cookie persistence: HTTPHandler._request (the same two   *)
(* tests stand in ThreadBackend and AsyncBackend).  A request is two       *)
(* steps: the cookie merge before the transport call, and the processing   *)
(* of the response, whose cookies are written to the store.                *)
(***************************************************************************)
\* the cookies a response may carry: none, or one (name, value)
ResponseCookies == {{}} \cup {{<<n, v>>} : n \in Names, v \in Values}

\* the jars a session may start from: empty, or holding one cookie
StartJars == {<<>>} \cup {Stored(<<>>, NormalizeDomain(c.domain), c) : c \in CookieInputs}

\* `if self._cookie_store` with a store configured: the truth value of the
\* CookieStore object, which is its __bool__
StoreTest(j) == Truthy(j)

\* update_from_response with the dict cs of response cookies
RECURSIVE StoredAll(_, _, _)
StoredAll(j, u, cs) ==
    IF cs = {} THEN j
    ELSE LET p == CHOOSE p \in cs : TRUE
             c == [name |-> p[1], value |-> p[2], domain |-> DomainFromUrl(u),
                   path |-> <<"/">>, expires |-> NoExpiry, secure |-> FALSE]
         IN StoredAll(Stored(j, DomainFromUrl(u), c), u, cs \ {p})

\* _request up to the transport call: the cookies of the store for the url
SessionBegin(u) ==
    /\ sess.pc = "idle"
    /\ jar' = IF StoreTest(jar) THEN CleanupExpired(jar, now) ELSE jar
    /\ sess' = [pc |-> "sent", url |-> u,
                 sent |-> IF StoreTest(jar) THEN Result(jar', u, now) ELSE {}]
    /\ UNCHANGED <<now, lookup, processed>>
    /\ SessionFrame

\* _request after the transport call: `if self._cookie_store and
\* response.cookies: update_from_response(url, response.cookies)`
SessionEnd(cs) ==
    /\ sess.pc = "sent"
    /\ jar' = IF StoreTest(jar) /\ cs # {} THEN StoredAll(jar, sess.url, cs) ELSE jar
    /\ sess' = [sess EXCEPT !.pc = "idle"]
    /\ processed' = IF cs # {} THEN [url |-> sess.url, pairs |-> cs] ELSE processed
    /\ UNCHANGED <<now, lookup>>
    /\ SessionFrame

SessionTick == TickClock /\ UNCHANGED <<jarVars, sessionVars>> /\ SessionFrame

SessionNext ==
    \/ \E u \in URLs : SessionBegin(u)
    \/ \E cs \in ResponseCookies : SessionEnd(cs)
    \/ SessionTick

(***************************************************************************)
(* The locks of TokenBucket.  acquire_sync runs its two sections under     *)
(* _thread_lock; acquire_async runs them under the asyncio lock and, inside *)
(* it, _thread_lock; both sleep with no lock held.  The coroutines share   *)
(* one event loop, so while one of them is between two awaits (or blocked  *)
(* on _thread_lock) no other coroutine runs.                               *)
(***************************************************************************)
LockThreads == {"t1", "t2"}
LockTasks == {"a1", "a2"}
LockCallers == LockThreads \cup LockTasks

NoLocks ==
    [thread_lock |-> "free", async_lock |-> "free", pc |-> [c \in LockCallers |-> "idle"]]

LockStart == lk = NoLocks

\* a with-block that never gives its lock back
KeptBy(c) == c

\* the lock after caller c has left its with-block
ReleasedBy(c) == "free"

\* the event loop is running the synchronous part of some other coroutine
LoopBusy(a) ==
    \E b \in LockTasks \ {a} : lk.pc[b] \in {"want_thread1", "in1", "want_thread2", "in2"}

\* a blocking acquire is called
LockCall(c) ==
    /\ lk.pc[c] = "idle"
    /\ c \in LockTasks => ~LoopBusy(c)
    /\ lk' = [lk EXCEPT !.pc[c] = IF c \in LockTasks THEN "want_async1" ELSE "want_thread1"]
    /\ UNCHANGED <<now, tokens, last_update>>
    /\ LockFrame

\* `async with async_lock:` is entered
TakeAsyncLock(a) ==
    /\ a \in LockTasks
    /\ lk.pc[a] \in {"want_async1", "want_async2"}
    /\ ~LoopBusy(a)
    /\ lk.async_lock = "free"
    /\ lk' = [lk EXCEPT !.async_lock = a,
                        !.pc[a] = IF lk.pc[a] = "want_async1" THEN "want_thread1" ELSE "want_thread2"]
    /\ UNCHANGED <<now, tokens, last_update>>
    /\ LockFrame

\* `with self._thread_lock:` is entered
TakeThreadLock(c) ==
    /\ lk.pc[c] \in {"want_thread1", "want_thread2"}
    /\ lk.thread_lock = "free"
    /\ lk' = [lk EXCEPT !.thread_lock = c,
                        !.pc[c] = IF lk.pc[c] = "want_thread1" THEN "in1" ELSE "in2"]
    /\ UNCHANGED <<now, tokens, last_update>>
    /\ LockFrame

\* the locks after c has left its with-blocks
Unlocked(c) ==
    [lk EXCEPT !.thread_lock = ReleasedBy(c),
               !.async_lock = IF c \in LockTasks THEN ReleasedBy(c) ELSE @]

\* the first locked section: a token is there and taken, or the wait is computed
LockedFirst(c) ==
    LET tok == Refilled(tokens, last_update, now) IN
    /\ lk.pc[c] = "in1"
    /\ last_update' = now
    /\ tokens' = IF tok >= TokenUnit THEN tok - TokenUnit ELSE tok
    /\ lk' = [Unlocked(c) EXCEPT !.pc[c] = IF tok >= TokenUnit THEN "returned" ELSE "sleeping"]
    /\ UNCHANGED now
    /\ LockFrame

\* time.sleep(wait_time) / asyncio.sleep(wait_time) is over: wait_time is
\* (1 - tokens) / rate, finite for rate > 0
SleepOver(c) ==
    /\ lk.pc[c] = "sleeping"
    /\ c \in LockTasks => ~LoopBusy(c)
    /\ lk' = [lk EXCEPT !.pc[c] = IF c \in LockTasks THEN "want_async2" ELSE "want_thread2"]
    /\ UNCHANGED <<now, tokens, last_update>>
    /\ LockFrame

\* the second locked section: refill, take the token, return True
LockedSecond(c) ==
    /\ lk.pc[c] = "in2"
    /\ last_update' = now
    /\ tokens' = ConsumeAfterSleep(Refilled(tokens, last_update, now))
    /\ lk' = [Unlocked(c) EXCEPT !.pc[c] = "returned"]
    /\ UNCHANGED now
    /\ LockFrame

LockTick == TickClock /\ UNCHANGED <<tokens, last_update, lk>> /\ LockFrame

LockNext ==
    \/ \E c \in LockCallers : LockCall(c)
    \/ \E a \in LockTasks : TakeAsyncLock(a)
    \/ \E c \in LockCallers : TakeThreadLock(c)
    \/ \E c \in LockCallers : LockedFirst(c)
    \/ \E c \in LockCallers : SleepOver(c)
    \/ \E c \in LockCallers : LockedSecond(c)
    \/ LockTick

\* every caller that can take a step takes one, and sleeps end
LockFairness ==
    \A c \in LockCallers :
        /\ WF_vars(TakeAsyncLock(c))
        /\ WF_vars(TakeThreadLock(c))
        /\ WF_vars(LockedFirst(c))
        /\ WF_vars(SleepOver(c))
        /\ WF_vars(LockedSecond(c))

(***************************************************************************)
(* DomainRateLimiter for one domain d.  _get_bucket reads the domain's     *)
(* rate first and takes self._lock afterwards to look the bucket up or     *)
(* create it; set_domain_rate stores the rate and pops the bucket under    *)
(* self._lock.  A bucket is modelled by the rate it was created with.      *)
(***************************************************************************)
DefaultRate == 2
MaxSets == 2
DomainRates == {1, 3}
LimiterCallers == {"t1", "t2"}
NoBucket == 0

NewLimiter ==
    [rate   |-> DefaultRate,       \* self._domain_rates.get(d, self._default_rate)
     bucket |-> NoBucket,          \* self._buckets.get(d)
     sets   |-> 0,                 \* calls of set_domain_rate(d, ...) that have returned
     pc     |-> [c \in LimiterCallers |-> "idle"],
     local  |-> [c \in LimiterCallers |-> DefaultRate],   \* the local `rate`
     since  |-> [c \in LimiterCallers |-> 0],             \* sets when the acquire started
     bound  |-> [c \in LimiterCallers |-> NoBucket]]      \* the bucket the acquire got

(***************************************************************************)
(* A client with rate_limit = RateLimit sends requests one after another   *)
(* to one domain.  Its backend builds DomainRateLimiter(default_rate =     *)
(* rate_limit), whose bucket for the domain is TokenBucket(rate): capacity *)
(* defaults to rate and the bucket starts full.  The wall clock counts     *)
(* ticks of 1/TicksPerSecond s, tokens are counted in 1/TokenUnit.         *)
(***************************************************************************)
RateLimit == 2
TicksPerSecond == 4
SequentialRequests == 5
Durations == {0, 1, 2}         \* ticks a round trip takes

\* TokenBucket.__init__: capacity if given, else rate (in tokens)
CapacityOf(rate) == rate

\* _refill at clock t
RefilledAt(b, t) ==
    Min(CapacityOf(b.rate) * TokenUnit,
        b.tokens + ((t - b.last_update) * b.rate * TokenUnit) \div TicksPerSecond)

\* _calculate_wait_time, in ticks
WaitTicks(b, tok) ==
    IF tok >= TokenUnit THEN 0
    ELSE CeilDiv((TokenUnit - tok) * TicksPerSecond, b.rate * TokenUnit)

NewTiming ==
    [clock       |-> 0,
     rate        |-> RateLimit,
     tokens      |-> CapacityOf(RateLimit) * TokenUnit,
     last_update |-> 0,
     pc          |-> "acquire",     \* acquire, sleeping, transport, done
     wait        |-> 0,            \* the local wait_time
     sent        |-> 0,            \* requests that have returned 200
     spent       |-> 0,            \* ticks spent in round trips
     slept       |-> 0]            \* ticks spent in time.sleep

TimingStart == timing = NewTiming

\* the first locked section of acquire_sync(blocking=True)
TimedAcquire ==
    LET tok == RefilledAt(timing, timing.clock) IN
    /\ timing.pc = "acquire"
    /\ timing' = [timing EXCEPT !.last_update = timing.clock,
                                !.tokens = IF tok >= TokenUnit THEN tok - TokenUnit ELSE tok,
                                !.wait = WaitTicks(timing, tok),
                                !.pc = IF tok >= TokenUnit THEN "transport" ELSE "sleeping"]
    /\ TimingFrame

\* time.sleep(wait_time), then the second locked section
TimedSleep ==
    LET t == timing.clock + timing.wait
        tok == RefilledAt(timing, t) IN
    /\ timing.pc = "sleeping"
    /\ timing' = [timing EXCEPT !.clock = t, !.slept = @ + timing.wait,
                                !.last_update = t, !.tokens = tok - TokenUnit,
                                !.pc = "transport"]
    /\ TimingFrame

\* the round trip: it takes d ticks and returns 200
TimedTransport(d) ==
    /\ timing.pc = "transport"
    /\ timing' = [timing EXCEPT !.clock = @ + d, !.spent = @ + d, !.sent = @ + 1,
                                !.pc = IF timing.sent + 1 = SequentialRequests
                                       THEN "done" ELSE "acquire"]
    /\ TimingFrame

TimingNext ==
    \/ TimedAcquire
    \/ TimedSleep
    \/ \E d \in Durations : TimedTransport(d)

(***************************************************************************)
(* HTTPHandler.session().  The handler keeps _persist_session and          *)
(* _cookie_store (None, or a CookieStore whose dict is the jar).  The      *)
(* block saves the flag and, `if self._cookie_store`, a copy of the dict;  *)
(* on exit it puts the copy back or, when the flag was off, drops the      *)
(* store.                                                                  *)
(***************************************************************************)
ScopeCookies == {c \in CookieInputs : c.path = <<"/">> /\ c.expires = NoExpiry /\ ~c.secure}

NoCopy == [some |-> FALSE, jar |-> <<>>]

NewScope(p) ==
    [pc          |-> "outside",    \* outside, inside, exited
     persist     |-> p,            \* self._persist_session
     store       |-> p,            \* self._cookie_store is not None
     old_persist |-> FALSE,        \* the local old_persist
     old_cookies |-> NoCopy,       \* the local old_cookies (some = FALSE for None)
     entry       |-> [persist |-> p, jar |-> <<>>]]   \* the handler as the block found it

ScopeStart == scope = NewScope(FALSE)

\* `if self._cookie_store` of session(): None is false, a CookieStore is its __bool__
ScopeStoreTest(j) == Truthy(j)

\* session() up to the yield
ScopeEnter ==
    /\ scope.pc = "outside"
    /\ scope' = [scope EXCEPT
            !.pc = "inside",
            !.old_persist = scope.persist,
            !.old_cookies = IF scope.store /\ ScopeStoreTest(jar)
                            THEN [some |-> TRUE, jar |-> jar] ELSE NoCopy,
            !.persist = TRUE,
            !.store = TRUE,
            !.entry = [persist |-> scope.persist, jar |-> jar]]
    /\ jar' = IF scope.persist THEN jar ELSE <<>>
    /\ ScopeFrame

\* a cookie reaches the store: a response's cookie or CookieStore.set
ScopeStore(c) ==
    /\ scope.pc # "exited"
    /\ scope.store
    /\ jar' = Stored(jar, NormalizeDomain(c.domain), c)
    /\ UNCHANGED scope
    /\ ScopeFrame

\* clear_cookies() with no domain
ScopeClear ==
    /\ scope.pc # "exited"
    /\ scope.store
    /\ jar' = <<>>
    /\ UNCHANGED scope
    /\ ScopeFrame

\* the finally clause of session()
ScopeExit ==
    /\ scope.pc = "inside"
    /\ IF scope.old_persist
       THEN /\ jar' = IF scope.store /\ ScopeStoreTest(jar) /\ scope.old_cookies.some
                      THEN scope.old_cookies.jar ELSE jar
            /\ scope' = [scope EXCEPT !.pc = "exited"]
       ELSE /\ jar' = <<>>
            /\ scope' = [scope EXCEPT !.pc = "exited", !.persist = FALSE, !.store = FALSE]
    /\ ScopeFrame

ScopeNext ==
    \/ ScopeEnter
    \/ \E c \in ScopeCookies : ScopeStore(c)
    \/ ScopeClear
    \/ ScopeExit

(***************************************************************************)
(* Header preparation of a stealth request.  A dict is the list of its     *)
(* keys in iteration order (the values play no part in the order).  A      *)
(* header name is its lower-case spelling and a mark for the spelling      *)
(* used: two keys are the same dict key when both agree, and               *)
(* `key.lower() == header_name.lower()` compares the first field.          *)
(***************************************************************************)
Name(l, c) == [lower |-> l, spelling |-> c]
AsWritten(l) == Name(l, "source")       \* the spelling of the library's own literals
LowerCased(l) == Name(l, "lower")       \* an all-lower-case spelling by a caller

\* CHROME_120.header_order, lower-cased
HeaderOrder ==
    <<"host", "connection", "sec-ch-ua", "sec-ch-ua-mobile", "sec-ch-ua-platform",
      "upgrade-insecure-requests", "user-agent", "accept", "sec-fetch-site",
      "sec-fetch-mode", "sec-fetch-user", "sec-fetch-dest", "referer",
      "accept-encoding", "accept-language", "cookie">>

\* BrowserProfile.get_default_headers for a Chrome profile
ProfileDefaultHeaders ==
    <<AsWritten("user-agent"), AsWritten("accept"), AsWritten("accept-language"),
      AsWritten("accept-encoding"), AsWritten("sec-ch-ua"), AsWritten("sec-ch-ua-mobile"),
      AsWritten("sec-ch-ua-platform")>>

\* the keys _generate_sec_fetch returns
SecFetchHeaders(method) ==
    <<AsWritten("sec-fetch-site"), AsWritten("sec-fetch-mode"), AsWritten("sec-fetch-dest")>>
        \o (IF method = "GET" THEN <<AsWritten("sec-fetch-user")>> ELSE <<>>)

KeysOf(h) == {h[i] : i \in 1..Len(h)}

\* dict.update / {**h, **m}: a key of h keeps its place, a new key goes to the end
Updated(h, m) == h \o SelectSeq(m, LAMBDA k : k \notin KeysOf(h))

\* position of the first key of h whose lower-case spelling is l, 0 if none
FirstMatch(h, l) ==
    IF \E i \in 1..Len(h) : h[i].lower = l
    THEN CHOOSE i \in 1..Len(h) : h[i].lower = l /\ \A j \in 1..(i - 1) : h[j].lower # l
    ELSE 0

\* HeaderGenerator._order_headers from the k-th name of the profile's order on
RECURSIVE OrderHeaders(_, _, _)
OrderHeaders(ordered, remaining, k) ==
    IF k > Len(HeaderOrder) THEN ordered \o remaining
    ELSE LET i == FirstMatch(remaining, HeaderOrder[k]) IN
         IF i = 0 THEN OrderHeaders(ordered, remaining, k + 1)
         ELSE OrderHeaders(Append(ordered, remaining[i]), Without(remaining, i), k + 1)

\* HeaderGenerator.generate
Generate(method, custom, referer) ==
    LET h1 == Updated(ProfileDefaultHeaders, SecFetchHeaders(method))
        h2 == IF referer THEN Updated(h1, <<AsWritten("referer")>>) ELSE h1
        h3 == Updated(h2, custom)
    IN OrderHeaders(<<>>, h3, 1)

\* _prepare_request in stealth mode: generate, then {**default_headers, **headers}
PreparedHeaders(defaults, method, custom, referer) ==
    Updated(defaults, Generate(method, custom, referer))

\* the header names a client or a caller sets
InputNames ==
    {AsWritten("accept-language"), LowerCased("accept"), AsWritten("x-trace"), AsWritten("x-app")}
HeaderDicts ==
    {<<>>} \cup {<<a>> : a \in InputNames}
           \cup {h \in {<<a, b>> : a \in InputNames, b \in InputNames} : h[1] # h[2]}

NewPrep(df, m, cu, r) ==
    [defaults |-> df, method |-> m, custom |-> cu, referer |-> r, done |-> FALSE, headers |-> <<>>]

PrepStart == prep = NewPrep(<<>>, "GET", <<>>, FALSE)

\* ThreadBackend._prepare_request / AsyncBackend._prepare_request, mode stealth
PrepareStealth ==
    /\ ~prep.done
    /\ prep' = [prep EXCEPT !.done = TRUE,
                            !.headers = PreparedHeaders(prep.defaults, prep.method,
                                                        prep.custom, prep.referer)]
    /\ PrepFrame

PrepNext == PrepareStealth

(***************************************************************************)
(* HeaderGenerator's referer chain and Sec-Fetch-Site.  A url is kept as   *)
(* the labels of its host and its port; its netloc is both together.       *)
(***************************************************************************)
Site(labels, port) == [labels |-> labels, port |-> port]
NoSite == Site(<<>>, "")                 \* None (and the empty string, as falsy)

SiteURLs ==
    {Site(<<"ex", "com">>, ""), Site(<<"a", "ex", "com">>, ""), Site(<<"ex", "com">>, ":8443"),
     Site(<<"other", "com">>, ""), Site(<<"ex", "co", "uk">>, ""), Site(<<"b", "co", "uk">>, "")}

\* the multi_level_tlds of _is_same_site that the urls above can end in
MultiLevelTLDs == {<<"co", "uk">>}

LastLabels(l, n) == SubSeq(l, Len(l) - n + 1, Len(l))

\* get_registrable_domain
RegistrableDomain(l) ==
    IF Len(l) < 2 THEN l
    ELSE IF \E t \in MultiLevelTLDs : Len(l) >= Len(t) /\ LastLabels(l, Len(t)) = t
    THEN LET t == CHOOSE t \in MultiLevelTLDs : Len(l) >= Len(t) /\ LastLabels(l, Len(t)) = t
         IN IF Len(l) > Len(t) THEN LastLabels(l, Len(t) + 1) ELSE l
    ELSE LastLabels(l, 2)

\* _is_same_site on two netlocs: the ports are dropped first
IsSameSite(a, b) ==
    /\ a.labels # <<>> /\ b.labels # <<>>
    /\ \/ a.labels = b.labels
       \/ RegistrableDomain(a.labels) = RegistrableDomain(b.labels)

\* Sec-Fetch-Site of a request to url u when the referer is r
SecFetchSite(u, r) ==
    IF r = NoSite THEN "none"
    ELSE IF r.labels # <<>> /\ u.labels # <<>>
    THEN IF r = u THEN "same-origin"
         ELSE IF IsSameSite(r, u) THEN "same-site"
         ELSE "cross-site"
    ELSE "cross-site"

NewGen == [last_referer |-> NoSite, url |-> NoSite, sent_referer |-> NoSite, site |-> "unset"]

GenStart == gen = NewGen

\* generate(url, referer=r): _generate_sec_fetch reads self._last_referer,
\* the Referer header is `referer or self._last_referer`
GenerateCall(u, r) ==
    /\ gen' = [last_referer |-> u,
               url |-> u,
               sent_referer |-> IF r # NoSite THEN r ELSE gen.last_referer,
               site |-> SecFetchSite(u, gen.last_referer)]
    /\ GenFrame

\* reset_referer_chain
ResetRefererChain ==
    /\ gen' = [gen EXCEPT !.last_referer = NoSite]
    /\ GenFrame

\* set_referer(url)
SetReferer(u) ==
    /\ gen' = [gen EXCEPT !.last_referer = u]
    /\ GenFrame

GenNext ==
    \/ \E u \in SiteURLs, r \in SiteURLs \cup {NoSite} : GenerateCall(u, r)
    \/ ResetRefererChain
    \/ \E u \in SiteURLs : SetReferer(u)

(***************************************************************************)
(* Round-robin selection while proxies are disabled, recover and are       *)
(* removed.  For every proxy p, fair[p] holds the proxies that have been   *)
(* enabled at every moment since p was last returned and have not been     *)
(* returned since: the ones p has to wait for.                             *)
(***************************************************************************)
FairProxies == <<"p1", "p2", "p3">>
FairURLs == {FairProxies[i] : i \in 1..Len(FairProxies)}

EnabledURLs(pl) == {pl[i].url : i \in {j \in 1..Len(pl) : pl[j].enabled}}

FairStart == fair = [p \in FairURLs |-> {}]

\* get_proxy
FairGet ==
    /\ SelectProxy
    /\ fair' = [p \in FairURLs |->
                   IF p = picked'.url THEN EnabledURLs(proxies') \ {p}
                   ELSE (fair[p] \cap EnabledURLs(proxies')) \ {picked'.url}]
    /\ UNCHANGED now
    /\ FairFrame

\* report_failure(u): the entry is disabled at max_failures
FairFailure(u) ==
    LET i == FirstIdx(proxies, u) IN
    /\ i # 0
    /\ proxies[i].consecutive_failures < MaxConsecutive
    /\ proxies' = [proxies EXCEPT ![i] = Failed(proxies[i], now)]
    /\ fair' = [p \in FairURLs |-> fair[p] \cap EnabledURLs(proxies')]
    /\ UNCHANGED <<now, round_robin_index, strategy, max_failures, cooldown, picked>>
    /\ FairFrame

\* remove_proxy(u)
FairRemove(u) ==
    LET i == FirstIdx(proxies, u) IN
    /\ i # 0
    /\ proxies' = Without(proxies, i)
    /\ fair' = [p \in FairURLs |-> fair[p] \cap EnabledURLs(proxies')]
    /\ UNCHANGED <<now, round_robin_index, strategy, max_failures, cooldown, picked>>
    /\ FairFrame

FairTick == TickClock /\ UNCHANGED <<poolVars, fair>> /\ FairFrame

FairNext ==
    \/ FairGet
    \/ \E u \in FairURLs : FairFailure(u)
    \/ \E u \in FairURLs : FairRemove(u)
    \/ FairTick

(***************************************************************************)
(* DomainRateLimiter.acquire_sync / acquire_async with blocking = False    *)
(* over the global bucket (if one is configured) and the bucket of the     *)
(* domain.  A bucket is the number of whole tokens it holds after its      *)
(* refill.                                                                 *)
(***************************************************************************)
BucketTokens == 3

NewPair(hg, g, dm) ==
    [has_global |-> hg, global |-> g, domain |-> dm,
     pc     |-> "idle",          \* idle, global, domain, returned
     took   |-> {},              \* the buckets this call has taken a token from
     result |-> FALSE]

PairStart == pair = NewPair(FALSE, 0, 0)

\* acquire(url, blocking=False) is entered
TryCall ==
    /\ pair.pc \in {"idle", "returned"}
    /\ pair' = [pair EXCEPT !.pc = "global", !.took = {}, !.result = FALSE]
    /\ PairFrame

\* `if self._global_bucket: if not self._global_bucket.acquire(blocking): return False`
TryGlobal ==
    /\ pair.pc = "global"
    /\ pair' = IF ~pair.has_global THEN [pair EXCEPT !.pc = "domain"]
                ELSE IF pair.global >= 1
                THEN [pair EXCEPT !.pc = "domain", !.global = @ - 1, !.took = @ \cup {"global"}]
                ELSE [pair EXCEPT !.pc = "returned", !.result = FALSE]
    /\ PairFrame

\* `return bucket.acquire(blocking)`
TryDomain ==
    /\ pair.pc = "domain"
    /\ pair' = IF pair.domain >= 1
                THEN [pair EXCEPT !.pc = "returned", !.domain = @ - 1,
                                  !.took = @ \cup {"domain"}, !.result = TRUE]
                ELSE [pair EXCEPT !.pc = "returned", !.result = FALSE]
    /\ PairFrame

\* time passes: the next refill of a bucket finds one token more
PairRefill(b) ==
    /\ IF b = "global"
       THEN /\ pair.has_global /\ pair.global < BucketTokens
            /\ pair' = [pair EXCEPT !.global = @ + 1]
       ELSE /\ pair.domain < BucketTokens
            /\ pair' = [pair EXCEPT !.domain = @ + 1]
    /\ PairFrame

PairNext ==
    \/ TryCall
    \/ TryGlobal
    \/ TryDomain
    \/ \E b \in {"global", "domain"} : PairRefill(b)

RestStart == TimingStart /\ ScopeStart /\ PrepStart /\ GenStart /\ FairStart /\ PairStart

LimiterStart == LockStart /\ dl = NewLimiter /\ RestStart

\* acquire_sync(url) starts: _get_bucket reads the rate, no lock held
ReadRate(c) ==
    /\ dl.pc[c] = "idle"
    /\ dl' = [dl EXCEPT !.pc[c] = "rate_read", !.local[c] = dl.rate, !.since[c] = dl.sets,
                        !.bound[c] = NoBucket]
    /\ LimiterFrame

\* _get_bucket under self._lock: the bucket of d, created with the local rate if missing
LookUpBucket(c) ==
    LET b == IF dl.bucket = NoBucket THEN dl.local[c] ELSE dl.bucket IN
    /\ dl.pc[c] = "rate_read"
    /\ dl' = [dl EXCEPT !.pc[c] = "acquiring", !.bucket = b, !.bound[c] = b]
    /\ LimiterFrame

\* bucket.acquire_sync(blocking) has returned
AcquireReturned(c) ==
    /\ dl.pc[c] = "acquiring"
    /\ dl' = [dl EXCEPT !.pc[c] = "idle"]
    /\ LimiterFrame

\* set_domain_rate(d, r), one step under self._lock
SetDomainRate(r) ==
    /\ dl.sets < MaxSets
    /\ dl' = [dl EXCEPT !.rate = r, !.bucket = NoBucket, !.sets = @ + 1]
    /\ LimiterFrame

LimiterNext ==
    \/ \E c \in LimiterCallers : ReadRate(c)
    \/ \E c \in LimiterCallers : LookUpBucket(c)
    \/ \E c \in LimiterCallers : AcquireReturned(c)
    \/ \E r \in DomainRates : SetDomainRate(r)

(***************************************************************************)
(* One request through ThreadBackend.execute_sync (kind "thread") or       *)
(* AsyncBackend.execute_async (kind "async"), statement by statement.  A   *)
(* suspending request can be cancelled wherever it awaits.                 *)
(***************************************************************************)
RunRetries == 1
Limiters == {"none", "domain", "both"}
Buckets == {"global", "domain"}

\* the request before execute_* is entered.  free: the buckets that hold a
\* token when the request asks
NewRun(k, st, lim, fr, pl) ==
    [kind |-> k, stealth |-> st, limiter |-> lim, free |-> fr, pool |-> pl,
     pc |-> "new", taken |-> {}, proxy |-> FALSE, attempt |-> 0,
     trace |-> <<>>, reports |-> <<>>, stored |-> FALSE,
     outcome |-> "none", raised_at |-> "none"]

RunInputs ==
    {NewRun(k, st, lim, fr, pl) : k \in {"thread", "async"}, st \in BOOLEAN, lim \in Limiters,
                                  fr \in SUBSET Buckets, pl \in BOOLEAN}

PipelineStart == run = NewRun("thread", FALSE, "none", {}, FALSE) /\ LimiterStart

\* the places where a request sleeps, and those where a suspending one awaits
Sleeps == {"stealth_delay", "global_wait", "domain_wait", "backoff"}
Suspensions == Sleeps \cup {"in_transport"}

\* the statements of the try block of execute_*
InTry == {"in_transport", "backoff"}

\* an except clause that takes everything
CatchesAll(o) == TRUE

\* `except TransportError` of _execute_with_retry
RetryCatches(o) == o = "TransportError"

\* `except (TransportError, MaxRetriesExceeded)` of execute_*
ReportCatches(o) == o \in {"TransportError", "MaxRetriesExceeded"}

Did(r, step) == [r EXCEPT !.trace = Append(@, step)]

\* exception o raised at the statement the request is at
Raise(r, o) ==
    IF r.pc = "in_transport" /\ RetryCatches(o) /\ r.attempt - 1 < RunRetries
    THEN [r EXCEPT !.pc = "backoff"]
    ELSE [r EXCEPT !.pc = "done", !.outcome = o, !.raised_at = r.pc,
                   !.reports = IF r.pc \in InTry /\ ReportCatches(o) /\ r.proxy
                               THEN Append(@, "failure") ELSE @]

\* an order of the steps that picks the proxy before the rate limit
StepAfterProxyFirst(s) ==
    CASE s = "new" -> "proxy"
      [] s = "stealth_delay" -> "rate_limit"
      [] s = "rate_limit" -> "prepare"
      [] s = "prepare" -> "cookies"
      [] s = "cookies" -> "attempt"
      [] s = "proxy" -> "global"
      [] OTHER -> "done"

\* the statement that follows statement s in execute_*
StepAfter(s) ==
    CASE s = "new" -> "stealth"
      [] s = "stealth_delay" -> "global"
      [] s = "rate_limit" -> "prepare"
      [] s = "prepare" -> "cookies"
      [] s = "cookies" -> "proxy"
      [] s = "proxy" -> "attempt"
      [] OTHER -> "done"

\* execute_* is called
RunCall ==
    /\ run.pc = "new"
    /\ run' = [run EXCEPT !.pc = StepAfter("new")]
    /\ PipelineFrame

\* _apply_stealth_delay: a sleep in stealth mode
StealthDelay ==
    /\ run.pc = "stealth"
    /\ run' = IF run.stealth THEN Did([run EXCEPT !.pc = "stealth_delay"], "stealth_delay")
               ELSE [run EXCEPT !.pc = StepAfter("stealth_delay")]
    /\ PipelineFrame

StealthWake ==
    /\ run.pc = "stealth_delay"
    /\ run' = [run EXCEPT !.pc = StepAfter("stealth_delay")]
    /\ PipelineFrame

\* DomainRateLimiter.acquire_*: the global bucket first
AcquireGlobal ==
    /\ run.pc = "global"
    /\ run' = IF run.limiter # "both" THEN [run EXCEPT !.pc = "domain"]
               ELSE IF "global" \in run.free
               THEN [run EXCEPT !.pc = "domain", !.taken = @ \cup {"global"}]
               ELSE [run EXCEPT !.pc = "global_wait"]
    /\ PipelineFrame

\* TokenBucket.acquire_*: after the sleep the token is taken
GlobalWake ==
    /\ run.pc = "global_wait"
    /\ run' = [run EXCEPT !.pc = "domain", !.taken = @ \cup {"global"}]
    /\ PipelineFrame

\* DomainRateLimiter.acquire_*: then the bucket of the domain
AcquireDomain ==
    /\ run.pc = "domain"
    /\ run' = IF run.limiter = "none" THEN [run EXCEPT !.pc = StepAfter("rate_limit")]
               ELSE IF "domain" \in run.free
               THEN Did([run EXCEPT !.pc = StepAfter("rate_limit"), !.taken = @ \cup {"domain"}],
                        "rate_limit")
               ELSE [run EXCEPT !.pc = "domain_wait"]
    /\ PipelineFrame

DomainWake ==
    /\ run.pc = "domain_wait"
    /\ run' = Did([run EXCEPT !.pc = StepAfter("rate_limit"), !.taken = @ \cup {"domain"}],
                   "rate_limit")
    /\ PipelineFrame

\* _prepare_request
PrepareRequest ==
    /\ run.pc = "prepare"
    /\ run' = Did([run EXCEPT !.pc = StepAfter("prepare")], "headers")
    /\ PipelineFrame

\* _get_cookies_for_request and the merge
MergeCookies ==
    /\ run.pc = "cookies"
    /\ run' = Did([run EXCEPT !.pc = StepAfter("cookies")], "cookie_merge")
    /\ PipelineFrame

\* `proxy = self._proxy_pool.get_proxy()`
PickProxy ==
    /\ run.pc = "proxy"
    /\ run' = Did([run EXCEPT !.pc = StepAfter("proxy"), !.proxy = run.pool], "proxy_pick")
    /\ PipelineFrame

\* _execute_with_retry: the transport is called
SendAttempt ==
    /\ run.pc = "attempt"
    /\ run' = Did([run EXCEPT !.pc = "in_transport", !.attempt = @ + 1], "transport")
    /\ PipelineFrame

\* the transport returns a response whose status is or is not a retry code
TransportReturns(retryable) ==
    /\ run.pc = "in_transport"
    /\ run' = IF retryable /\ run.attempt - 1 < RunRetries
               THEN [run EXCEPT !.pc = "backoff"]
               ELSE [run EXCEPT !.pc = "report"]
    /\ PipelineFrame

\* the transport raises TransportError
TransportRaises ==
    /\ run.pc = "in_transport"
    /\ run' = Raise(run, "TransportError")
    /\ PipelineFrame

\* the backoff sleep ends; the loop goes on
BackoffWake ==
    /\ run.pc = "backoff"
    /\ run' = [run EXCEPT !.pc = "attempt"]
    /\ PipelineFrame

\* `if proxy: self._proxy_pool.report_success(proxy.url)`
ReportProxySuccess ==
    /\ run.pc = "report"
    /\ run' = Did([run EXCEPT !.pc = "store",
                               !.reports = IF run.proxy THEN Append(@, "success") ELSE @],
                   "proxy_report")
    /\ PipelineFrame

\* _store_response_cookies, `return response`
StoreAndReturn ==
    /\ run.pc = "store"
    /\ run' = Did(Did([run EXCEPT !.pc = "done", !.stored = TRUE, !.outcome = "response"],
                       "jar_update"), "return")
    /\ PipelineFrame

\* the caller cancels the task: CancelledError is raised where it awaits
Cancel ==
    /\ run.kind = "async"
    /\ run.pc \in Suspensions
    /\ run' = Raise(run, "CancelledError")
    /\ PipelineFrame

PipelineNext ==
    \/ RunCall
    \/ StealthDelay
    \/ StealthWake
    \/ AcquireGlobal
    \/ GlobalWake
    \/ AcquireDomain
    \/ DomainWake
    \/ PrepareRequest
    \/ MergeCookies
    \/ PickProxy
    \/ SendAttempt
    \/ \E retryable \in BOOLEAN : TransportReturns(retryable)
    \/ TransportRaises
    \/ BackoffWake
    \/ ReportProxySuccess
    \/ StoreAndReturn
    \/ Cancel

(***************************************************************************)
(* Batches: ThreadBackend.gather_sync (mode "thread") and                  *)
(* AsyncBackend.gather_async (mode "async").  The requests of a batch are  *)
(* r_0 .. r_{n-1}; a result carries the request it is the result of.       *)
(***************************************************************************)
BatchSize == 3
Indices == 0..(BatchSize - 1)
Requests == [i \in Indices |-> <<"r", i>>]
Concurrencies == {1, 2}
Kinds == {"response", "error"}

NoResult == [req |-> <<>>, kind |-> "none"]
NewTask == [state |-> "new", result |-> NoResult]

\* the locals of a gather call before its first statement
NewBatch(m, s, c) ==
    [pc |-> "new", mode |-> m, stop_on_error |-> s, concurrency |-> c,
     task |-> [i \in Indices |-> NewTask],
     arrived |-> <<>>, yielded |-> 0,
     responses |-> [i \in Indices |-> NoResult],
     errors |-> [i \in Indices |-> NoResult],
     stop |-> FALSE,
     at_stop |-> {}]     \* history: the requests that had completed when stop was set

GatherInputs == {NewBatch(m, s, c) : m \in {"thread", "async"}, s \in BOOLEAN, c \in Concurrencies}

\* the transport answers every request; no blocking run to compare with yet
NoTwin == [script |-> [i \in Indices |-> "response"], obs |-> <<>>]

GatherStart == batch = NewBatch("thread", FALSE, 1) /\ twin = NoTwin /\ PipelineStart

\* a result list filled in the order the results arrive
SlotByArrival(i, k) == k

\* the output index of the result of task i, the k-th to be recorded:
\* future_to_idx[future] in gather_sync, the idx of execute_one in gather_async
SlotOf(i, k) == i

\* how many results are recorded
Recorded(b) == Cardinality({i \in Indices : b.responses[i] # NoResult \/ b.errors[i] # NoResult})

\* the requests whose execution has ended
Completed(b) == {i \in Indices : b.task[i].state \in {"done", "yielded"}}

\* `responses[idx] = ...` or `errors[idx] = e`, and the stop flag
Record(b, i, r) ==
    LET idx == SlotOf(i, Recorded(b)) IN
    IF r.kind = "response"
    THEN [b EXCEPT !.responses[idx] = r]
    ELSE [b EXCEPT !.errors[idx] = r, !.stop = b.stop_on_error,
                   !.at_stop = IF b.stop_on_error /\ ~b.stop THEN Completed(b) ELSE @]

Running(b) == Cardinality({i \in Indices : b.task[i].state = "running"})

\* a pool or semaphore that admits everyone
SlotAlwaysFree(b) == TRUE

\* a worker of ThreadPoolExecutor(max_workers) is idle; the semaphore of
\* asyncio.Semaphore(effective_concurrency) can be acquired
SlotFree(b) == Running(b) < b.concurrency

\* gather_sync: every request is submitted to the executor, which queues it
GatherSubmit ==
    /\ batch.pc = "new" /\ batch.mode = "thread"
    /\ batch' = [batch EXCEPT !.pc = "gathering",
                              !.task = [i \in Indices |-> [NewTask EXCEPT !.state = "queued"]]]
    /\ GatherFrame

\* an idle worker takes the oldest queued call of execute_sync
WorkerStart(i) ==
    /\ batch.pc = "gathering" /\ batch.mode = "thread"
    /\ batch.task[i].state = "queued"
    /\ \A j \in Indices : j < i => batch.task[j].state # "queued"
    /\ SlotFree(batch)
    /\ batch' = [batch EXCEPT !.task[i].state = "running"]
    /\ GatherFrame

\* execute_sync ends in a worker thread: the future holds the result of its request
FutureDone(i, kind) ==
    /\ batch.pc = "gathering" /\ batch.mode = "thread"
    /\ batch.task[i].state = "running"
    /\ batch' = [batch EXCEPT !.task[i] = [state |-> "done",
                                            result |-> [req |-> Requests[i], kind |-> kind]],
                              !.arrived = Append(@, i)]
    /\ GatherFrame

\* one turn of `for future in as_completed(future_to_idx)`
Collect ==
    /\ batch.pc = "gathering" /\ batch.mode = "thread"
    /\ batch.yielded < Len(batch.arrived)
    /\ LET i == batch.arrived[batch.yielded + 1]
            b == [batch EXCEPT !.yielded = @ + 1, !.task[i].state = "yielded"]
       IN batch' = IF batch.stop /\ batch.stop_on_error THEN b
                   ELSE Record(b, i, batch.task[i].result)
    /\ GatherFrame

\* gather_async: the tasks are created and asyncio.gather starts them
GatherSpawn ==
    /\ batch.pc = "new" /\ batch.mode = "async"
    /\ batch' = [batch EXCEPT !.pc = "gathering"]
    /\ GatherFrame

\* execute_one up to `async with semaphore`; the loop starts the tasks in the
\* order asyncio.gather created them
TaskEnter(i) ==
    /\ batch.pc = "gathering" /\ batch.mode = "async"
    /\ batch.task[i].state = "new"
    /\ \A j \in Indices : j < i => batch.task[j].state # "new"
    /\ batch' = [batch EXCEPT !.task[i].state =
                    IF batch.stop_on_error /\ batch.stop THEN "skipped" ELSE "waiting"]
    /\ GatherFrame

\* the semaphore is acquired, by the longest waiting task first; the second
\* test of the stop event
TaskAcquire(i) ==
    /\ batch.pc = "gathering" /\ batch.mode = "async"
    /\ batch.task[i].state = "waiting"
    /\ \A j \in Indices : j < i => batch.task[j].state # "waiting"
    /\ SlotFree(batch)
    /\ batch' = [batch EXCEPT !.task[i].state =
                    IF batch.stop_on_error /\ batch.stop THEN "skipped" ELSE "running"]
    /\ GatherFrame

\* `await self.execute_async(req)` returns or raises, and the result is recorded
TaskDone(i, kind) ==
    /\ batch.pc = "gathering" /\ batch.mode = "async"
    /\ batch.task[i].state = "running"
    /\ LET r == [req |-> Requests[i], kind |-> kind]
       IN batch' = Record([batch EXCEPT !.task[i] = [state |-> "yielded", result |-> r],
                                       !.arrived = Append(@, i)], i, r)
    /\ GatherFrame

\* `return BatchResult(responses=responses, errors=errors)`
GatherReturn ==
    /\ batch.pc = "gathering"
    /\ \A i \in Indices : batch.task[i].state \in {"yielded", "skipped"}
    /\ batch' = [batch EXCEPT !.pc = "returned"]
    /\ GatherFrame

\* the requests that were executed: each of them has made its proxy report
\* and its cookie-jar update inside execute_sync / execute_async
Executed(b) == {i \in Indices : b.task[i].result # NoResult}

\* what a caller can observe of a finished gather call
Obs(b) == [responses |-> b.responses, errors |-> b.errors, executed |-> Executed(b)]

GatherNext ==
    \/ GatherSubmit
    \/ \E i \in Indices : WorkerStart(i)
    \/ \E i \in Indices, kind \in Kinds : FutureDone(i, kind)
    \/ Collect
    \/ GatherSpawn
    \/ \E i \in Indices : TaskEnter(i)
    \/ \E i \in Indices : TaskAcquire(i)
    \/ \E i \in Indices, kind \in Kinds : TaskDone(i, kind)
    \/ GatherReturn

(***************************************************************************)
(* The two variants of gather on one transport behaviour: the blocking     *)
(* gather_sync runs first, then gather_async with the same options.        *)
(***************************************************************************)
Scripts == [Indices -> Kinds]

\* the transport behaves as the script says
Scripted == \A i \in Indices : batch'.task[i].result.kind \in {"none", twin.script[i]}

VariantStep == GatherNext /\ Scripted

\* the blocking call has returned; the suspending call is made
VariantSwitch ==
    /\ batch.pc = "returned" /\ batch.mode = "thread" /\ twin.obs = <<>>
    /\ twin' = [twin EXCEPT !.obs = <<Obs(batch)>>]
    /\ batch' = NewBatch("async", batch.stop_on_error, batch.concurrency)
    /\ VariantFrame

VariantNext == VariantStep \/ VariantSwitch

(***************************************************************************)
(* The specifications: one per subsystem, the others held at their start   *)
(***************************************************************************)
InitBucket == now = 0 /\ BucketStart /\ RetryStart(0) /\ PoolStart("round_robin") /\ CallerStart /\ ManagerStart /\ RequestStart /\ JarStart
    /\ GatherStart

SpecBucket == InitBucket /\ [][BucketNext]_vars

InitRetry ==
    /\ now = 0 /\ BucketStart /\ (\E n \in 0..MaxRetries : RetryStart(n))
    /\ PoolStart("round_robin") /\ CallerStart /\ ManagerStart /\ RequestStart /\ JarStart
    /\ GatherStart

SpecRetry == InitRetry /\ [][RetryNext]_vars

InitPool ==
    /\ now = 0 /\ BucketStart /\ RetryStart(0) /\ (\E st \in Strategies : PoolStart(st))
    /\ CallerStart /\ ManagerStart /\ RequestStart /\ JarStart
    /\ GatherStart

SpecPool == InitPool /\ [][PoolNext]_vars

\* ProxyPool(proxies=ps) for any list of valid urls, then add_proxy,
\* remove_proxy and get_proxy calls
ConstructorLists == {<<>>, <<"p1">>, <<"p1", "p2">>, <<"p1", "p1">>, <<"p2", "p1", "p2">>}

MembershipNext ==
    \/ GetProxy
    \/ \E u \in ProxyURLs : AddProxy(u)
    \/ \E u \in ProxyURLs : RemoveProxy(u)
    \/ PoolTick

InitMembership ==
    /\ now = 0 /\ BucketStart /\ RetryStart(0)
    /\ (\E ps \in ConstructorLists : PoolStartWith(ps, "round_robin"))
    /\ CallerStart /\ ManagerStart /\ RequestStart /\ JarStart
    /\ GatherStart

SpecMembership == InitMembership /\ [][MembershipNext]_vars

\* a pool of one, two or three proxies under round robin
InitRotation ==
    /\ now = 0 /\ BucketStart /\ RetryStart(0) /\ CallerStart /\ ManagerStart /\ RequestStart /\ JarStart
    /\ GatherStart
    /\ \E ps \in RotationLists : PoolStartWith(ps, "round_robin")

SpecRotation == InitRotation /\ [][RotationNext]_vars

InitSnapshot ==
    /\ now = 0 /\ BucketStart /\ RetryStart(0) /\ CallerStart /\ ManagerStart /\ RequestStart /\ JarStart
    /\ GatherStart
    /\ \E st \in Strategies : PoolStart(st)

SpecSnapshot == InitSnapshot /\ [][SnapshotNext]_vars

InitManager ==
    /\ now = 0 /\ BucketStart /\ RetryStart(0) /\ PoolStart("round_robin")
    /\ CallerStart /\ ManagerStart /\ RequestStart /\ JarStart
    /\ GatherStart

SpecManager == InitManager /\ [][ManagerNext]_vars

\* pool [p1, p2], round robin, max_failures = 1, cooldown = 60
InitFailover ==
    /\ now = 0 /\ BucketStart /\ (\E n \in 0..MaxRetries : RetryStart(n))
    /\ PoolStartFull(FailoverProxies, "round_robin", FailoverMaxFailures, FailoverCooldown)
    /\ CallerStart /\ ManagerStart /\ RequestStart /\ JarStart
    /\ GatherStart

SpecFailover == InitFailover /\ [][FailoverNext]_vars

\* pool [p1, p2] under every strategy, max_failures = 1, cooldown = 60
InitDirect ==
    /\ now = 0 /\ BucketStart /\ (\E n \in 0..MaxRetries : RetryStart(n))
    /\ (\E st \in Strategies :
            PoolStartFull(FailoverProxies, st, FailoverMaxFailures, FailoverCooldown))
    /\ CallerStart /\ ManagerStart /\ RequestStart /\ JarStart
    /\ GatherStart

SpecDirect == InitDirect /\ [][DirectNext]_vars

InitJar ==
    /\ now = 0 /\ BucketStart /\ RetryStart(0) /\ PoolStart("round_robin")
    /\ CallerStart /\ ManagerStart /\ RequestStart /\ JarStart
    /\ GatherStart

SpecJar == InitJar /\ [][JarNext]_vars

\* a session over a jar in any of the states of StartJars
InitSession ==
    /\ now = 0 /\ BucketStart /\ RetryStart(0) /\ PoolStart("round_robin")
    /\ CallerStart /\ ManagerStart /\ RequestStart
    /\ jar \in StartJars /\ lookup = NoLookup /\ SessionStart
    /\ GatherStart

SpecSession == InitSession /\ [][SessionNext]_vars

\* a gather call of either backend, with and without stop_on_error
InitGather ==
    /\ now = 0 /\ BucketStart /\ RetryStart(0) /\ PoolStart("round_robin")
    /\ CallerStart /\ ManagerStart /\ RequestStart /\ JarStart
    /\ batch \in GatherInputs /\ twin = NoTwin /\ PipelineStart

SpecGather == InitGather /\ [][GatherNext]_vars

\* thread callers and coroutine callers of blocking acquire on one bucket
InitLocks ==
    /\ now = 0 /\ BucketStart /\ RetryStart(0) /\ PoolStart("round_robin")
    /\ CallerStart /\ ManagerStart /\ RequestStart /\ JarStart
    /\ GatherStart

SpecLocks == InitLocks /\ [][LockNext]_vars /\ LockFairness

\* acquires for one domain next to set_domain_rate for that domain
InitLimiter ==
    /\ now = 0 /\ BucketStart /\ RetryStart(0) /\ PoolStart("round_robin")
    /\ CallerStart /\ ManagerStart /\ RequestStart /\ JarStart
    /\ GatherStart

SpecLimiter == InitLimiter /\ [][LimiterNext]_vars

\* five sequential requests of a client with rate_limit = 2
InitTiming ==
    /\ now = 0 /\ BucketStart /\ RetryStart(0) /\ PoolStart("round_robin")
    /\ CallerStart /\ ManagerStart /\ RequestStart /\ JarStart
    /\ GatherStart

SpecTiming == InitTiming /\ [][TimingNext]_vars

\* a handler built with persist_session on or off, then one session() block
InitScope ==
    /\ now = 0 /\ BucketStart /\ RetryStart(0) /\ PoolStart("round_robin")
    /\ CallerStart /\ ManagerStart /\ RequestStart
    /\ jar = <<>> /\ lookup = NoLookup /\ SessionStart
    /\ batch = NewBatch("thread", FALSE, 1) /\ twin = NoTwin
    /\ run = NewRun("thread", FALSE, "none", {}, FALSE)
    /\ LockStart /\ dl = NewLimiter /\ TimingStart /\ PrepStart /\ GenStart /\ FairStart /\ PairStart
    /\ scope \in {NewScope(p) : p \in BOOLEAN}

SpecScope == InitScope /\ [][ScopeNext]_vars

\* a stealth request prepared from any client-wide and caller headers
InitPrep ==
    /\ now = 0 /\ BucketStart /\ RetryStart(0) /\ PoolStart("round_robin")
    /\ CallerStart /\ ManagerStart /\ RequestStart /\ JarStart
    /\ batch = NewBatch("thread", FALSE, 1) /\ twin = NoTwin
    /\ run = NewRun("thread", FALSE, "none", {}, FALSE)
    /\ LockStart /\ dl = NewLimiter /\ TimingStart /\ ScopeStart /\ GenStart /\ FairStart /\ PairStart
    /\ prep \in {NewPrep(df, m, cu, r) :
                    df \in HeaderDicts, m \in {"GET", "POST"}, cu \in HeaderDicts, r \in BOOLEAN}

SpecPrep == InitPrep /\ [][PrepNext]_vars

\* generate, reset_referer_chain and set_referer calls in any order
InitGen ==
    /\ now = 0 /\ BucketStart /\ RetryStart(0) /\ PoolStart("round_robin")
    /\ CallerStart /\ ManagerStart /\ RequestStart /\ JarStart
    /\ GatherStart

SpecGen == InitGen /\ [][GenNext]_vars

\* a round-robin pool of three proxies under failures and removals
InitFair ==
    /\ now = 0 /\ BucketStart /\ RetryStart(0) /\ PoolStartWith(FairProxies, "round_robin")
    /\ CallerStart /\ ManagerStart /\ RequestStart /\ JarStart
    /\ GatherStart

SpecFair == InitFair /\ [][FairNext]_vars

\* non-blocking acquires on a limiter with or without a global bucket
InitPair ==
    /\ now = 0 /\ BucketStart /\ RetryStart(0) /\ PoolStart("round_robin")
    /\ CallerStart /\ ManagerStart /\ RequestStart /\ JarStart
    /\ batch = NewBatch("thread", FALSE, 1) /\ twin = NoTwin
    /\ run = NewRun("thread", FALSE, "none", {}, FALSE)
    /\ LockStart /\ dl = NewLimiter
    /\ TimingStart /\ ScopeStart /\ PrepStart /\ GenStart /\ FairStart
    /\ pair \in {NewPair(hg, g, dm) : hg \in BOOLEAN, g \in 0..BucketTokens, dm \in 0..BucketTokens}

SpecPair == InitPair /\ [][PairNext]_vars

\* one request of either backend under every configuration
InitPipeline ==
    /\ now = 0 /\ BucketStart /\ RetryStart(0) /\ PoolStart("round_robin")
    /\ CallerStart /\ ManagerStart /\ RequestStart /\ JarStart
    /\ batch = NewBatch("thread", FALSE, 1) /\ twin = NoTwin
    /\ run \in RunInputs /\ LimiterStart

SpecPipeline == InitPipeline /\ [][PipelineNext]_vars

\* both variants, one request in flight at a time, on every transport behaviour
InitVariants ==
    /\ now = 0 /\ BucketStart /\ RetryStart(0) /\ PoolStart("round_robin")
    /\ CallerStart /\ ManagerStart /\ RequestStart /\ JarStart
    /\ batch \in {NewBatch("thread", s, 1) : s \in BOOLEAN}
    /\ twin \in {[script |-> f, obs |-> <<>>] : f \in Scripts}
    /\ PipelineStart

SpecVariants == InitVariants /\ [][VariantNext]_vars

(***************************************************************************)
(* Claims about the token bucket                                           *)
(***************************************************************************)
\* C1: over any time interval of length D the number of acquires that return
\* True is at most capacity + rate * D: any run of grants i..j fits in
\* Capacity + Rate * (grants[j] - grants[i]) units.
C1_GrantsWithinRate ==
    \A i, j \in 1..Len(grants) :
        i <= j => (j - i + 1) * TokenUnit <= Capacity + Rate * (grants[j] - grants[i])

\* C2: in every reachable state 0 <= tokens <= capacity.
C2_TokensInRange == 0 <= tokens /\ tokens <= Capacity

(***************************************************************************)
(* Claims about the retry loop                                             *)
(***************************************************************************)
Terminated == rpc \in {"returned", "raised"}
Invocations == Len(history)
AllAttemptsRaised == \A i \in 1..Len(history) : history[i].kind = "error"
AllAttemptsRetryable ==
    \A i \in 1..Len(history) :
        history[i].kind = "response" /\ history[i].status \in RetryCodes
NonRetryableAt(k) == history[k].kind = "response" /\ history[k].status \notin RetryCodes

\* C3: with retries = N and a transport that fails on every attempt, the
\* request makes exactly N+1 transport attempts and then terminates: while
\* only failures were seen there are at most N+1 invocations, and the loop
\* has terminated exactly when the N+1st has failed.
C3_ExactlyNPlusOneAttempts ==
    AllAttemptsRaised =>
        /\ Invocations <= retries + 1
        /\ (Terminated <=> Invocations = retries + 1)

C3_Witness ==
    /\ retries >= 2
    /\ AllAttemptsRaised
    /\ Terminated
    /\ Invocations = retries + 1
    /\ sleeps # <<>>

\* C4: when the transport fails on every attempt the request ends by raising
\* MaxRetriesExceeded with attempts = N+1 and last_error = the error of the
\* final attempt.
C4_RaisesMaxRetriesExceeded ==
    (Terminated /\ AllAttemptsRaised) =>
        /\ outcome.kind = "MaxRetriesExceeded"
        /\ outcome.attempts = retries + 1
        /\ outcome.last_error = Invocations

\* C5: when every attempt returns a status of the retry set the request ends
\* as for transport errors: exactly N+1 attempts, then MaxRetriesExceeded.
C5_RetryableStatusExhausts ==
    (Terminated /\ AllAttemptsRetryable) =>
        /\ Invocations = retries + 1
        /\ outcome.kind = "MaxRetriesExceeded"

\* C6: the loop stops at the first response whose status is not in the retry
\* set and returns that response unchanged: if invocation k gave such a
\* response, no invocation follows it (so k - 1 <= N earlier ones were
\* retried), and the caller receives exactly that response.
C6_StopsAtFirstNonRetryable ==
    \A k \in 1..Len(history) :
        NonRetryableAt(k) =>
            /\ k = Invocations
            /\ k <= retries + 1
            /\ rpc = "returned"
            /\ outcome = [kind |-> "response", status |-> history[k].status, id |-> k]

C6_Witness ==
    /\ Invocations = 3
    /\ history[1].kind = "error"
    /\ history[2].kind = "response" /\ history[2].status = 503
    /\ NonRetryableAt(3) /\ history[3].status = 404
    /\ rpc = "returned"
    /\ outcome.id = 3

(***************************************************************************)
(* Claims about the proxy pool                                             *)
(***************************************************************************)
Enabled(pl, u) == Entry(pl, u).enabled
Failures(pl, u) == Entry(pl, u).consecutive_failures
DisabledUntil(pl, u) == Entry(pl, u).disabled_until

C8_RecoveryAtSelection ==
    [][\A u \in ProxyURLs :
        (GetProxy /\ HasProxy(proxies, u) /\ ~Enabled(proxies, u)
            /\ now > DisabledUntil(proxies, u))
        => /\ Enabled(proxies', u)
           /\ Failures(proxies', u) = 0
           /\ picked'.url # "none"]_vars

C8_Witness ==
    \E u \in ProxyURLs :
        /\ HasProxy(proxies, u)
        /\ picked.url = u /\ u \in picked.recovered
        /\ Enabled(proxies, u) /\ Failures(proxies, u) = 0
        /\ DisabledUntil(proxies, u) > 0 /\ DisabledUntil(proxies, u) < now
        /\ Entry(proxies, u).last_used = now

\* an entry is in its cooldown at time t
InCooldown(p, t) == ~p.enabled /\ t < p.disabled_until

\* C9: any reported success for a proxy resets its consecutive-failure count
\* to 0 and clears its cooldown, whatever state the proxy was in.
C9_SuccessClearsCooldown ==
    [][\A u \in ProxyURLs :
        (ReportSuccess(u) /\ HasProxy(proxies, u))
        => /\ Failures(proxies', u) = 0
           /\ ~InCooldown(Entry(proxies', u), now)]_vars

\* C10 (as amended): an entry becomes disabled only by a failure report that
\* brings it to K consecutive failures or by force_disable; a disabled entry
\* becomes enabled again only through the cooldown-expiry check (run by
\* get_proxy, available_count and get_stats) once now >= disabled_until, by
\* force_enable, or by reset_all.
C10_HealthTransitions ==
    [][\A u \in ProxyURLs :
        (HasProxy(proxies, u) /\ HasProxy(proxies', u)) =>
            /\ (Enabled(proxies, u) /\ ~Enabled(proxies', u))
               => \/ ReportFailure(u) /\ Failures(proxies', u) >= MaxFailures
                  \/ ForceDisable(u)
            /\ (~Enabled(proxies, u) /\ Enabled(proxies', u))
               => \/ (GetProxy \/ AvailableCount \/ GetStats)
                        /\ DisabledUntil(proxies, u) <= now
                  \/ ForceEnable(u)
                  \/ ResetAll]_vars

\* C10 as stated: unhealthy only by reaching K consecutive failures; healthy
\* again only through the cooldown-expiry check at selection or force_enable.
C10_OnlyFailuresAndSelection ==
    [][\A u \in ProxyURLs :
        (HasProxy(proxies, u) /\ HasProxy(proxies', u)) =>
            /\ (Enabled(proxies, u) /\ ~Enabled(proxies', u))
               => ReportFailure(u) /\ Failures(proxies', u) >= MaxFailures
            /\ (~Enabled(proxies, u) /\ Enabled(proxies', u))
               => \/ GetProxy /\ DisabledUntil(proxies, u) <= now
                  \/ ForceEnable(u)]_vars

\* one entry has come back through the recovery check of a selection while
\* the other sits disabled by K consecutive failures
C10_Witness ==
    \E u, v \in ProxyURLs :
        /\ u # v /\ HasProxy(proxies, u) /\ HasProxy(proxies, v)
        /\ u \in picked.recovered /\ Enabled(proxies, u)
        /\ ~Enabled(proxies, v) /\ Failures(proxies, v) >= MaxFailures

(***************************************************************************)
(* Claims about the callers of get_proxy                                   *)
(***************************************************************************)
\* C11: with N enabled proxies, the round-robin strategy and no failures, the
\* get_proxy calls cycle through the proxies in insertion order (call i
\* returns entry ((i-1) mod N) + 1), so the first N*k calls return each proxy
\* exactly k times.
C11_RoundRobinCycles ==
    LET n == Len(proxies) IN
    /\ \A i \in 1..Len(returned) : returned[i] = proxies[((i - 1) % n) + 1].url
    /\ \A k \in 1..MaxPicks :
          n * k <= Len(returned) =>
              \A j \in 1..n :
                  Cardinality({i \in 1..(n * k) : returned[i] = proxies[j].url}) = k

\* three proxies, two full rounds written down
C11_Witness ==
    /\ Len(proxies) = 3
    /\ returned = <<"p1", "p2", "p3", "p1", "p2", "p3">>

ReportKinds == {reports[i].kind : i \in 1..Len(reports)}

\* C13: a request for which a proxy was picked reports on that proxy exactly
\* once, success if it returned a response and failure if it ended in a
\* terminal transport error; a request that ended otherwise has reported no
\* failure.
C13_ReportsOncePerOutcome ==
    (req.pc = "idle" /\ req.proxy # "none") =>
        /\ req.outcome = "response"
              => reports = <<[kind |-> "success", url |-> req.proxy]>>
        /\ req.outcome = "TransportError"
              => reports = <<[kind |-> "failure", url |-> req.proxy]>>
        /\ req.outcome = "OtherError" => "failure" \notin ReportKinds

\* the manager's record for u says unhealthy and its cooldown is still running
Unhealthy(u) == ~health[u].is_healthy /\ now <= health[u].cooldown_until

\* C14: once a proxy has been marked unhealthy, the next request goes through
\* a different, healthy proxy when one is configured: no request is given a
\* proxy that is unhealthy at that time while the pool holds a healthy one.
C14_RoutesAroundUnhealthy ==
    [][(RequestBegin /\ \E v \in ManagerURLs : health[v].is_healthy)
           => ~Unhealthy(req'.proxy)]_vars

\* C15: with pool [p1, p2], round robin, max_failures = 1, cooldown = 60 and
\* a transport that fails only through p1, three successive requests each
\* return a successful response, requests 2 and 3 go through p2, and the pool
\* statistics then show one healthy and one unhealthy proxy.
C15_FailoverScenario ==
    /\ \A i \in 1..Len(served) :
          /\ served[i].outcome = "response"
          /\ i >= 2 => served[i].proxy = "p2"
    /\ Len(served) = MaxRequests =>
          (StatsOf(proxies, now).available = 1 /\ StatsOf(proxies, now).disabled = 1)

\* C40: with a non-empty proxy pool configured, no transport attempt is made
\* without a pool proxy: a request for which get_proxy found every entry
\* disabled is not sent directly.
C40_NoAttemptWithoutPoolProxy ==
    (Len(proxies) > 0 /\ req.pc = "running" /\ history # <<>>) => req.proxy # "none"

(***************************************************************************)
(* Claims about the cookie jar                                             *)
(***************************************************************************)
\* the cookies the jar holds
StoredCookies == {Flat(jar)[i] : i \in 1..Len(Flat(jar))}

\* the condition under which a lookup for u at time t has to return c
Applies(c, u, t) ==
    /\ ~IsExpired(c, t)
    /\ MatchesDomain(c, Host(u))
    /\ StartsWith(u.path, c.path)
    /\ (~c.secure \/ u.scheme = "https")

\* C16: for every stored cookie C and every url U, get_for_url(U) returns C
\* (its value under its name) if and only if C is unexpired, C's domain
\* matches U's host, U's path begins with C's path, and C is not secure or
\* U's scheme is https.  (Checked for the cookies whose name no other stored
\* cookie bears, so that the returned dict has room for each of them.)
C16_ReturnedIffApplies ==
    lookup.op = "get_for_url" =>
        \A c \in StoredCookies :
            (\A d \in StoredCookies : d.name = c.name => d = c) =>
                (<<c.name, c.value>> \in lookup.pairs <=> Applies(c, lookup.url, now))

\* two urls of one origin: the same scheme and the same authority
SameOrigin(u, v) == u.scheme = v.scheme /\ LowerStr(u.netloc) = LowerStr(v.netloc)

\* C17: with cookie persistence and from any jar state, once a response
\* carrying cookies has been fully processed, every request to the same
\* origin that starts afterwards sends those cookies.
C17_LaterRequestSeesCookies ==
    [][\A u \in URLs :
        (SessionBegin(u) /\ processed.pairs # {} /\ SameOrigin(u, processed.url))
            => processed.pairs \subseteq sess'.sent]_vars

\* the stored cookies whose expiry time has not passed at time t
Live(j, t) == {i \in 1..Len(Flat(j)) : ~IsExpired(Flat(j)[i], t)}

\* C18: no read of the jar by an external caller (lookup for a url, snapshot
\* of all cookies, size, emptiness) reveals a cookie whose expiry time has
\* passed: what a read reports is what the unexpired cookies alone give.
C18_ReadsHideExpired ==
    LET fl == Flat(jar)
        live == Live(jar, now)
    IN /\ lookup.op = "get_for_url" =>
            \A p \in lookup.pairs : \E i \in live : <<fl[i].name, fl[i].value>> = p
       /\ lookup.op = "get_all" =>
            \A s \in lookup.all : \E i \in live : <<fl[i].name, fl[i].value>> = <<s[2], s[3]>>
       /\ lookup.op = "len" => lookup.count = Cardinality(live)
       /\ lookup.op = "bool" => (lookup.count = 1 <=> live # {})

\* the cookies the jar j holds under key k
ItemsOf(j, k) == IF KeyIdx(j, k) = 0 THEN <<>> ELSE j[KeyIdx(j, k)].items
Keys(j) == {j[i].key : i \in 1..Len(j)}

\* the cookies stored for every domain other than k are the same in j and j2
OthersUnchanged(j, j2, k) ==
    \A k2 \in (Keys(j) \cup Keys(j2)) \ {k} : ItemsOf(j2, k2) = ItemsOf(j, k2)

C20_IndexAligned ==
    \A i \in Indices :
        /\ batch.responses[i] # NoResult =>
              batch.responses[i] = [req |-> Requests[i], kind |-> "response"]
        /\ batch.errors[i] # NoResult =>
              batch.errors[i] = [req |-> Requests[i], kind |-> "error"]

\* a returned batch whose first requests to complete were r_1, r_0, r_2, with
\* a response at index 0 and an error at index 2
C20_Witness ==
    /\ batch.pc = "returned"
    /\ Len(batch.arrived) >= 3 /\ SubSeq(batch.arrived, 1, 3) = <<1, 0, 2>>
    /\ batch.responses[0] # NoResult
    /\ batch.responses[1] # NoResult
    /\ batch.errors[2] # NoResult

\* C21: at every moment of a gather call with concurrency C at most C of its
\* requests are in flight.
C21_InFlightBounded == Running(batch) <= batch.concurrency

\* two requests in flight under a limit of two, a third one held back
C21_Witness ==
    /\ batch.concurrency = 2
    /\ Running(batch) = 2
    /\ \E i \in Indices : batch.task[i].state \in {"queued", "waiting"}

\* request i starts executing in this step
Starts(i) == batch.task[i].state # "running" /\ batch'.task[i].state = "running"

\* C22: with stop_on_error no request starts executing after the first
\* failure has been recorded.
C22_NoStartAfterFailure ==
    [][\A i \in Indices : (batch.stop_on_error /\ batch.stop) => ~Starts(i)]_vars

\* C23: with stop_on_error every request that had completed when the first
\* failure was recorded keeps its result at its index in the returned
\* BatchResult.
C23_CompletedResultsKept ==
    (batch.pc = "returned" /\ batch.stop_on_error) =>
        \A i \in batch.at_stop :
            IF batch.task[i].result.kind = "response"
            THEN batch.responses[i] = batch.task[i].result
            ELSE batch.errors[i] = batch.task[i].result

\* C24: a gather call returns a BatchResult in which the error of each failing
\* request is stored under its index, and no index has both a response and an
\* error.  Under stop_on_error the requests still outstanding when the first
\* failure was recorded are left out of the first half.
C24_ErrorsCaptured ==
    /\ \A i \in Indices : batch.responses[i] = NoResult \/ batch.errors[i] = NoResult
    /\ batch.pc = "returned" =>
          \A i \in Indices :
              (batch.task[i].result.kind = "error" /\ (batch.stop_on_error => i \in batch.at_stop))
                  => batch.errors[i] = batch.task[i].result

\* C25 (gather): for the same requests, options and transport behaviour the
\* blocking and the suspending gather have the same observable outcome: the
\* same response or error per index, and the same requests executed, hence
\* the same proxy reports and cookie-jar updates.
C25_VariantsAgree ==
    (batch.pc = "returned" /\ batch.mode = "async" /\ twin.obs # <<>>) => Obs(batch) = twin.obs[1]

\* C26: a request cancelled in one of its sleeps (rate-limit wait, stealth
\* delay, retry backoff) surfaces the cancellation and has consumed no
\* rate-limit token and committed no proxy selection.
C26_CancelledSleepHasNoEffects ==
    (run.outcome = "CancelledError" /\ run.raised_at \in Sleeps) =>
        (run.taken = {} /\ ~run.proxy)

Rank(step) ==
    CASE step = "stealth_delay" -> 1
      [] step = "rate_limit" -> 2
      [] step = "headers" -> 3
      [] step = "cookie_merge" -> 4
      [] step = "proxy_pick" -> 5
      [] step = "transport" -> 6
      [] step = "proxy_report" -> 7
      [] step = "jar_update" -> 8
      [] step = "return" -> 9

\* the buckets a request has to take a token from
Required(r) ==
    IF r.limiter = "both" THEN {"global", "domain"}
    ELSE IF r.limiter = "domain" THEN {"domain"} ELSE {}

\* C28: within one request the steps happen in the order stealth delay,
\* rate-limit acquisition, header preparation, cookie merge, proxy pick,
\* transport attempts, proxy report, jar update, return; no transport attempt
\* starts before the rate-limit token is acquired; a request that returns a
\* response has gone through every step from header preparation on.
C28_StepsInOrder ==
    /\ \A i, j \in 1..Len(run.trace) :
          i < j => \/ Rank(run.trace[i]) < Rank(run.trace[j])
                   \/ run.trace[i] = "transport" /\ run.trace[j] = "transport"
    /\ run.attempt > 0 => Required(run) \subseteq run.taken
    /\ run.outcome = "response" =>
          {"headers", "cookie_merge", "proxy_pick", "transport", "proxy_report",
           "jar_update", "return"} \subseteq {run.trace[i] : i \in 1..Len(run.trace)}

\* a request in stealth mode, with both buckets and a proxy, that returned a
\* response from its second attempt
C28_Witness ==
    /\ run.outcome = "response"
    /\ run.stealth /\ run.limiter = "both" /\ run.proxy
    /\ run.trace = <<"stealth_delay", "rate_limit", "headers", "cookie_merge", "proxy_pick",
                     "transport", "transport", "proxy_report", "jar_update", "return">>

\* C29: every blocking acquire on a bucket with rate > 0 eventually returns
\* true, under any interleaving of thread callers and coroutine callers on
\* the same bucket.
C29_AcquireReturns ==
    \A c \in LockCallers : (lk.pc[c] # "idle") ~> (lk.pc[c] = "returned")

\* the four callers have returned, three of them after a sleep: the bucket
\* is in debt
C29_Witness ==
    /\ \A c \in LockCallers : lk.pc[c] = "returned"
    /\ tokens < 0

\* C30: after set_domain_rate(d, r) has returned, every acquire for d that
\* starts afterwards (and before a later set_domain_rate) is limited by a
\* bucket of rate r, whatever acquires for d were in progress.
C30_NewRateApplies ==
    \A c \in LimiterCallers :
        (dl.pc[c] = "acquiring" /\ dl.since[c] = dl.sets /\ dl.sets > 0) => dl.bound[c] = dl.rate

\* C31: with rate_limit = 2, five sequential blocking requests to one domain
\* all succeed and together take at least 2.0 s, and less than 2.5 s when
\* the round trips themselves take no time.
C31_FiveRequestsTakeTwoSeconds ==
    (timing.pc = "done" /\ timing.sent = 5) =>
        /\ timing.clock >= 2 * TicksPerSecond
        /\ timing.spent = 0 => 2 * timing.clock < 5 * TicksPerSecond

\* C32: the sleep between attempt i and attempt i+1 (i from 0) is within
\* [B^i, 1.1 * B^i] seconds, after a transport error and after a retryable
\* status alike.
C32_BackoffWithinBound ==
    \A k \in 1..Len(sleeps) :
        /\ k <= Len(history)
        /\ history[k].kind = "error" \/ IsRetryCode(history[k].status)
        /\ sleeps[k] >= Pow(BackoffBase, k - 1)
        /\ 10 * sleeps[k] <= 11 * Pow(BackoffBase, k - 1)

\* three sleeps: after an error, after a retryable status, after an error
C32_Witness ==
    /\ Len(sleeps) = 3
    /\ sleeps = <<1, BackoffBase, BackoffBase * BackoffBase>>
    /\ history[1].kind = "error"
    /\ history[2].kind = "response"
    /\ history[3].kind = "error"

\* C33: switch_proxy makes the next healthy proxy after the current one in
\* pool order, wrapping around, the current proxy; it never makes an
\* unhealthy proxy current; it raises NoHealthyProxiesError when the
\* non-empty pool holds no healthy proxy.
C33_SwitchesToNextHealthy ==
    [][SwitchProxy =>
        LET n == Len(ManagerPool)
            At(k) == ManagerPool[((current_index + k) % n) + 1]
        IN IF \E u \in ManagerURLs : health'[u].is_healthy
           THEN \E k \in 1..n :
                   /\ health'[At(k)].is_healthy
                   /\ \A j \in 1..(k - 1) : ~health'[At(j)].is_healthy
                   /\ current_index' = (current_index + k) % n
                   /\ current_proxy' = At(k)
                   /\ switched' = At(k)
           ELSE /\ switched' = "NoHealthyProxiesError"
                /\ current_proxy' = current_proxy]_vars

\* a switch from p1 that passed over the unhealthy p2
C33_Witness ==
    /\ switched = "p3"
    /\ current_proxy = "p3"
    /\ ~health["p2"].is_healthy
    /\ health["p1"].is_healthy

\* C34: the pool never holds two entries with the same url, whether the
\* urls came from the constructor list or from add_proxy, after any
\* sequence of add_proxy and remove_proxy calls.
C34_NoDuplicateURLs ==
    \A i, j \in 1..Len(proxies) : i # j => proxies[i].url # proxies[j].url

\* C35: when a handler.session() block exits, the persist flag and the
\* cookie jar are as they were on entry: the cookies stored inside the
\* block are gone and the cookies present before it are back.
C35_SessionRestores ==
    scope.pc = "exited" =>
        /\ scope.persist = scope.entry.persist
        /\ scope.store = scope.entry.persist
        /\ jar = scope.entry.jar

\* position of a name in the profile's order; past the end for a name the
\* profile does not list
OrderRank(n) ==
    IF \E k \in 1..Len(HeaderOrder) : HeaderOrder[k] = n.lower
    THEN CHOOSE k \in 1..Len(HeaderOrder) : HeaderOrder[k] = n.lower
    ELSE Len(HeaderOrder) + 1

\* C36: the prepared headers of a stealth request iterate in the active
\* profile's order for the names the profile lists, followed by all other
\* names, also after client-wide default headers and caller headers have
\* been merged in.
C36_PreparedInProfileOrder ==
    prep.done =>
        \A i, j \in 1..Len(prep.headers) :
            i < j => OrderRank(prep.headers[i]) <= OrderRank(prep.headers[j])

\* C37: across any sequence of generate, reset_referer_chain and
\* set_referer calls, the generated Sec-Fetch-Site is none exactly when no
\* referer is known for the request, same-origin when the url's netloc
\* equals the referer's, same-site when the two share a registrable
\* domain, and cross-site otherwise.
C37_SecFetchSiteFollowsReferer ==
    gen.site # "unset" =>
        LET r == gen.sent_referer
            u == gen.url
        IN /\ (gen.site = "none") <=> (r = NoSite)
           /\ r # NoSite =>
                gen.site = IF r = u THEN "same-origin"
                           ELSE IF RegistrableDomain(r.labels) = RegistrableDomain(u.labels)
                           THEN "same-site"
                           ELSE "cross-site"

\* C38: with round-robin strategy, when the available set changes between
\* selections, no enabled proxy is returned a second time before every
\* other proxy that stayed enabled throughout has been returned once.
C38_FairOverAvailableSet ==
    [][FairGet => (picked'.url # "none" => fair[picked'.url] = {})]_vars

\* C39: a non-blocking domain-limiter acquire that returns false has
\* consumed no token, neither from the global bucket nor from the bucket
\* of the domain.
C39_DeniedAcquireTakesNothing ==
    (pair.pc = "returned" /\ ~pair.result) => pair.took = {}

====
